---- MODULE Spec2Model ----
(***************************************************************************)
(* probnum.probability: RandomVariable, Distribution, Dirac, Normal and    *)
(* the coercion functions, modelled as a heap of distribution objects on   *)
(* which Python's arithmetic operators act.                                *)
(*                                                                         *)
(* Numbers are exact rationals n/d tagged with their Python type ("int" or *)
(* "float"); an array is a shape together with one number that fills it.   *)
(* Python compares numbers by value, whatever the tag (1 == 1.0), and 0.0  *)
(* and -0.0 are the same value.                                            *)
(***************************************************************************)
EXTENDS Integers, Sequences, FiniteSets, TLC

(***************************************************************************)
(* Bounds of the model.                                                    *)
(***************************************************************************)
\* numerators of the numbers an operation may produce lie in -MaxNum..MaxNum
MaxNum == 18
\* denominators of the numbers an operation may produce lie in 1..MaxDen
MaxDen == 4
\* RandomVariable constructions in a run
MaxRVs == 2
\* operator applications in a run on two operands
MaxOps == 1
\* operator applications in a chain of affine maps
MaxChain == 2
\* coercions in a run
MaxCoerce == 2
\* evaluations of pdf, logpdf, cdf, logcdf in a run
MaxEvals == 1
\* additions and draws in a run on two point masses
MaxSamples == 2
\* operator applications in a run on a distribution and a point mass
MaxLazy == 2

(***************************************************************************)
(* Numbers and arrays.                                                     *)
(***************************************************************************)
Abs(x) == IF x < 0 THEN -x ELSE x

Max(x, y) == IF x < y THEN y ELSE x

RECURSIVE Gcd(_, _)
Gcd(a, b) == IF b = 0 THEN a ELSE Gcd(b, a % b)

\* the value n/d of type t and shape sh, in lowest terms
Val(sh, t, n, d) ==
    LET g == Gcd(Abs(n), d)
    IN  [sh |-> sh, t |-> t, n |-> n \div g, d |-> d \div g]

PyInt(n) == Val(<<>>, "int", n, 1)

PyFloat(n, d) == Val(<<>>, "float", n, d)

\* numpy.ndarray of shape sh filled with the number x
Full(sh, x) == [x EXCEPT !.sh = sh]

\* the value of an attribute that is not there
NoVal == [sh |-> <<>>, t |-> "none", n |-> 0, d |-> 1]

\* numpy.isscalar: a Python number, not an ndarray
isscalar(v) == v.sh = <<>>

\* Python's ==, by value
NumEq(a, b) == a.sh = b.sh /\ a.n = b.n /\ a.d = b.d

\* the type of the result of arithmetic on two numbers
JoinT(a, b) == IF a.t = "float" \/ b.t = "float" THEN "float" ELSE "int"

\* a value or the exception raised while computing it
Ok(v) == [err |-> "none", v |-> v]

Err(e) == [err |-> e, v |-> NoVal]

\* numpy broadcasting of two shapes, aligned at the last axis
Pad(s, k) == [i \in 1..k |-> IF i <= k - Len(s) THEN 1 ELSE s[i - (k - Len(s))]]

BroadcastOk(s1, s2) ==
    LET k == Max(Len(s1), Len(s2))
    IN  \A i \in 1..k : \/ Pad(s1, k)[i] = Pad(s2, k)[i]
                        \/ Pad(s1, k)[i] = 1
                        \/ Pad(s2, k)[i] = 1

BroadcastShape(s1, s2) ==
    LET k == Max(Len(s1), Len(s2))
    IN  [i \in 1..k |-> Max(Pad(s1, k)[i], Pad(s2, k)[i])]

\* a + b
VAdd(a, b) ==
    IF ~BroadcastOk(a.sh, b.sh) THEN Err("ValueError")
    ELSE Ok(Val(BroadcastShape(a.sh, b.sh), JoinT(a, b), a.n * b.d + b.n * a.d, a.d * b.d))

\* a - b
VSub(a, b) ==
    IF ~BroadcastOk(a.sh, b.sh) THEN Err("ValueError")
    ELSE Ok(Val(BroadcastShape(a.sh, b.sh), JoinT(a, b), a.n * b.d - b.n * a.d, a.d * b.d))

\* a * b
VMul(a, b) ==
    IF ~BroadcastOk(a.sh, b.sh) THEN Err("ValueError")
    ELSE Ok(Val(BroadcastShape(a.sh, b.sh), JoinT(a, b), a.n * b.n, a.d * b.d))

\* operator.truediv(a, b): always a float; a zero scalar divisor raises
VTrueDiv(a, b) ==
    IF ~BroadcastOk(a.sh, b.sh) THEN Err("ValueError")
    ELSE IF b.n = 0 THEN Err("ZeroDivisionError")
    ELSE Ok(Val(BroadcastShape(a.sh, b.sh), "float",
                (IF b.n < 0 THEN -1 ELSE 1) * a.n * b.d, a.d * Abs(b.n)))

\* a @ b: Python numbers have no @; numpy refuses a 0-d operand and
\* contracts the last axis of a with the first axis of b
VMatMul(a, b) ==
    IF isscalar(a) /\ isscalar(b) THEN Err("TypeError")
    ELSE IF isscalar(a) \/ isscalar(b) THEN Err("ValueError")
    ELSE IF a.sh[Len(a.sh)] # b.sh[1] THEN Err("ValueError")
    ELSE Ok(Val(SubSeq(a.sh, 1, Len(a.sh) - 1) \o SubSeq(b.sh, 2, Len(b.sh)),
                JoinT(a, b), b.sh[1] * a.n * b.n, a.d * b.d))

\* -a
VNeg(a) == Val(a.sh, a.t, -a.n, a.d)

\* ~a (operator.invert, operator.inv): bitwise complement, integers only
VInvert(a) ==
    IF a.t # "int" THEN Err("TypeError")
    ELSE Ok(Val(a.sh, "int", -a.n - 1, 1))

\* a ** 2
VSquare(a) == Val(a.sh, a.t, a.n * a.n, a.d * a.d)

\* the truth of `a == 0` in an if: ambiguous for an array of several elements
VIsZero(a) ==
    IF ~isscalar(a) THEN "ValueError"
    ELSE IF a.n = 0 THEN "True" ELSE "False"

\* a.T
VTranspose(a) ==
    IF isscalar(a) THEN Err("AttributeError")
    ELSE Ok([a EXCEPT !.sh = [i \in 1..Len(a.sh) |-> a.sh[Len(a.sh) + 1 - i]]])

\* x ** k for an integer k >= 0 (0 ** 0 is 1)
RECURSIVE IntPow(_, _)
IntPow(x, k) == IF k = 0 THEN 1 ELSE x * IntPow(x, k - 1)

\* pow(a, b, None) for an exponent with an integer value; a result that is
\* irrational, complex or infinite is outside the numbers modelled
VPow(a, b) ==
    IF ~BroadcastOk(a.sh, b.sh) THEN Err("ValueError")
    ELSE IF b.d # 1 THEN Err("Unmodelled")
    ELSE IF b.n >= 0
    THEN Ok(Val(BroadcastShape(a.sh, b.sh), JoinT(a, b), IntPow(a.n, b.n), IntPow(a.d, b.n)))
    ELSE IF ~(isscalar(a) /\ isscalar(b)) THEN Err("Unmodelled")
    ELSE IF a.n = 0 THEN Err("ZeroDivisionError")
    ELSE Ok(Val(<<>>, "float",
                (IF a.n < 0 /\ (-b.n) % 2 = 1 THEN -1 ELSE 1) * IntPow(a.d, -b.n),
                IntPow(Abs(a.n), -b.n)))

\* numpy.dtype(type(x)) of a scalar, x.dtype of an array
DtypeOf(v) == IF v.t = "int" THEN "int64" ELSE "float64"

VInBounds(v) == Abs(v.n) <= MaxNum /\ v.d <= MaxDen

(***************************************************************************)
(* Distribution objects.  An object is a record; the heap is the sequence  *)
(* of the objects allocated so far and an object's identity is its index.  *)
(*   cls     "Dirac", "Normal" or "Distribution" (the generic class)       *)
(*   support parameters["support"] of a Dirac                             *)
(*   mean, cov  parameters["mean"], parameters["cov"] of a Normal; for a   *)
(*           generic Distribution built with a mean function, mean is the  *)
(*           value that function returns, and likewise var                 *)
(*   mfn, vfn  the closures stored in _mean and _var of a generic          *)
(*           Distribution: "none", "fn" (a caller's function), or the      *)
(*           lambda an operator stored, which reads object `base` when it  *)
(*           is called and holds the captured constant `delta`             *)
(*   rs      the generator object in _random_state: 0 is the global numpy  *)
(*           generator, k > 0 the generator made from a seed               *)
(*   fns     the functions a caller gave the constructor as pdf, logpdf,   *)
(*           cdf and logcdf, stored in _pdf, _logpdf, _cdf and _logcdf:    *)
(*           each is None or the table of the values the function returns  *)
(*           at the points 1, 2, ...  The lambdas an operator stores there *)
(*           are not modelled; only constructed objects are evaluated.     *)
(***************************************************************************)
\* the value None of an attribute that holds a function
None == <<>>

\* _pdf = _logpdf = _cdf = _logcdf = None
NoFns == [pdf |-> None, logpdf |-> None, cdf |-> None, logcdf |-> None]

MkObj(cls, support, mean, cov, mfn, vfn, var, base, delta, rs) ==
    [cls |-> cls, support |-> support, mean |-> mean, cov |-> cov,
     mfn |-> mfn, vfn |-> vfn, var |-> var, base |-> base, delta |-> delta, rs |-> rs,
     fns |-> NoFns]

\* Dirac.__init__
MkDirac(support, rs) ==
    MkObj("Dirac", support, NoVal, NoVal, "none", "none", NoVal, 0, NoVal, rs)

\* the attributes Normal.__init__ sets once its checks have passed
MkNormal(mean, cov, rs) ==
    MkObj("Normal", NoVal, mean, cov, "none", "none", NoVal, 0, NoVal, rs)

\* Distribution.__init__ with parameters = {}
MkGeneric(mfn, mean, vfn, var, base, delta, rs) ==
    MkObj("Distribution", NoVal, mean, NoVal, mfn, vfn, var, base, delta, rs)

\* what a call returns: the heap it leaves, the exception it raised
\* ("none" if it returned) and the object it returned
Ret(h, ref) == [h |-> h, err |-> "none", ref |-> ref]

Raise(h, e) == [h |-> h, err |-> e, ref |-> 0]

\* a constructor call that returns the new object
Alloc(h, obj) == Ret(Append(h, obj), Len(h) + 1)

\* an operand: an object of the heap or a raw Python value
ObjArg(i) == [k |-> "obj", id |-> i, v |-> NoVal]

RawArg(v) == [k |-> "raw", id |-> 0, v |-> v]

\* type(x).__name__ of an operand, as the operators' isinstance tests see it
ClsOf(h, x) == IF x.k = "obj" THEN h[x.id].cls ELSE "raw"

\* Dirac.mean, Normal.mean, Distribution.mean
RECURSIVE mean(_, _)
mean(h, i) ==
    LET o == h[i]
    IN  CASE o.cls = "Dirac" -> Ok(o.support)
          [] o.cls = "Normal" -> Ok(o.mean)
          [] o.mfn = "fn" -> Ok(o.mean)
          [] o.mfn = "shift" ->
                LET m == mean(h, o.base)
                IN  IF m.err # "none" THEN m ELSE VAdd(m.v, o.delta)
          [] o.mfn = "scale" ->
                LET m == mean(h, o.base)
                IN  IF m.err # "none" THEN m ELSE VMul(m.v, o.delta)
          [] o.mfn = "neg" ->
                LET m == mean(h, o.base)
                IN  IF m.err # "none" THEN m ELSE Ok(VNeg(m.v))
          [] o.mfn = "pos" -> mean(h, o.base)
          [] OTHER -> Err("NotImplementedError")

\* Dirac.var, Normal.var, Distribution.var
RECURSIVE var(_, _)
var(h, i) ==
    LET o == h[i]
    IN  CASE o.cls = "Dirac" -> Ok(PyFloat(0, 1))
          [] o.cls = "Normal" ->
                IF isscalar(o.mean) THEN Ok(o.cov)
                ELSE Ok([o.cov EXCEPT !.sh = <<o.cov.sh[1]>>])
          [] o.vfn = "fn" -> Ok(o.var)
          [] o.vfn = "base" -> var(h, o.base)
          [] o.vfn = "scale" ->
                LET w == var(h, o.base)
                IN  IF w.err # "none" THEN w ELSE VMul(w.v, VSquare(o.delta))
          [] OTHER -> Err("NotImplementedError")

\* a faulty asdistribution: a Distribution is copied
asdistribution_Copy(h, x) ==
    IF x.k = "obj" THEN Alloc(h, h[x.id]) ELSE Alloc(h, MkDirac(x.v, 0))

\* asdistribution: a Distribution is returned as it is, anything else
\* (a number, an array) becomes the support of a new Dirac
asdistribution(h, x) ==
    IF x.k = "obj" THEN Ret(h, x.id) ELSE Alloc(h, MkDirac(x.v, 0))

(***************************************************************************)
(* Evaluation of pdf, logpdf, cdf and logcdf of a generic Distribution.    *)
(* The values a density or a cumulative function returns are powers of     *)
(* two, 2^k, and the values of the logarithms are the multiples k * ln 2,  *)
(* written Ln2(k), so that numpy.exp and numpy.log are computed exactly.   *)
(***************************************************************************)
\* the float k * ln 2
Ln2(k) == IF k = 0 THEN PyFloat(0, 1) ELSE [sh |-> <<>>, t |-> "ln2", n |-> k, d |-> 1]

\* the float 2^k
Pow2(k) == IF k >= 0 THEN PyFloat(IntPow(2, k), 1) ELSE PyFloat(1, IntPow(2, -k))

\* the k with v = 2^k for a positive rational v that is a power of two
RECURSIVE Log2(_)
Log2(v) ==
    IF v.n = 1 /\ v.d = 1 THEN 0
    ELSE IF v.d = 1 THEN 1 + Log2([v EXCEPT !.n = v.n \div 2])
    ELSE Log2([v EXCEPT !.d = v.d \div 2]) - 1

RECURSIVE IsPow2(_)
IsPow2(n) == n = 1 \/ (n > 1 /\ n % 2 = 0 /\ IsPow2(n \div 2))

\* numpy.exp(r) for the outcome r of a call; an irrational result is outside
\* the numbers modelled
NpExp(r) ==
    IF r.err # "none" THEN r
    ELSE IF r.v.t = "ln2" THEN Ok(Pow2(r.v.n))
    ELSE IF r.v.n = 0 THEN Ok(PyFloat(1, 1))
    ELSE Err("Unmodelled")

\* numpy.log(r) for the outcome r of a call
NpLog(r) ==
    IF r.err # "none" THEN r
    ELSE IF r.v.t # "ln2" /\ r.v.n > 0 /\ IsPow2(r.v.n) /\ IsPow2(r.v.d) /\ (r.v.n = 1 \/ r.v.d = 1)
    THEN Ok(Ln2(Log2(r.v)))
    ELSE Err("Unmodelled")

\* f(x) for the attribute f: calling None raises TypeError
CallFn(f, x) == IF f = None THEN Err("TypeError") ELSE Ok(f[x])

\* hasattr(self, '_' + name): __init__ assigns all four attributes
hasattr(o, name) == name \in DOMAIN o.fns

\* a faulty Distribution.pdf: the value of logpdf is returned as it is
Distribution_pdf_NoExp(h, self, x) ==
    IF h[self].fns.pdf # None THEN CallFn(h[self].fns.pdf, x)
    ELSE IF h[self].fns.logpdf # None THEN CallFn(h[self].fns.logpdf, x)
    ELSE Err("NotImplementedError")

\* Distribution.pdf
Distribution_pdf(h, self, x) ==
    IF h[self].fns.pdf # None THEN CallFn(h[self].fns.pdf, x)
    ELSE IF h[self].fns.logpdf # None THEN NpExp(CallFn(h[self].fns.logpdf, x))
    ELSE Err("NotImplementedError")

\* Distribution.logpdf
Distribution_logpdf(h, self, x) ==
    IF hasattr(h[self], "logpdf") THEN CallFn(h[self].fns.logpdf, x)
    ELSE IF hasattr(h[self], "pdf") THEN NpLog(CallFn(h[self].fns.pdf, x))
    ELSE Err("NotImplementedError")

\* Distribution.cdf
Distribution_cdf(h, self, x) ==
    IF h[self].fns.cdf # None THEN CallFn(h[self].fns.cdf, x)
    ELSE IF h[self].fns.logcdf # None THEN NpExp(CallFn(h[self].fns.logcdf, x))
    ELSE Err("NotImplementedError")

\* Distribution.logcdf
Distribution_logcdf(h, self, x) ==
    IF h[self].fns.logcdf # None THEN CallFn(h[self].fns.logcdf, x)
    ELSE IF h[self].fns.cdf # None THEN NpLog(CallFn(h[self].fns.cdf, x))
    ELSE Err("NotImplementedError")

EvalMethods == {"pdf", "logpdf", "cdf", "logcdf"}

\* self.method(x) on a generic Distribution
Evaluate(h, method, self, x) ==
    CASE method = "pdf" -> Distribution_pdf(h, self, x)
      [] method = "logpdf" -> Distribution_logpdf(h, self, x)
      [] method = "cdf" -> Distribution_cdf(h, self, x)
      [] method = "logcdf" -> Distribution_logcdf(h, self, x)

(***************************************************************************)
(* Sampling.  The size of a sample is an int n or a tuple of ints; sh is   *)
(* the shape numpy.ones(shape=size) has.                                   *)
(***************************************************************************)
NoSize == [k |-> "none", n |-> 0, sh |-> <<>>]

IntSize(n) == [k |-> "int", n |-> n, sh |-> <<n>>]

TupleSize(sh) == [k |-> "tuple", n |-> 0, sh |-> sh]

\* Dirac.sample: the support itself for size == 1, else support * ones(size)
Dirac_sample(h, self, size) ==
    IF size = IntSize(1) THEN Ok(h[self].support)
    ELSE VMul(h[self].support, Full(size.sh, PyFloat(1, 1)))

\* self.sample(size=size) on a Distribution object; the draws of a Normal and
\* of a caller's or an operator's sampler are outside the model
Sample(h, self, size) ==
    IF h[self].cls = "Dirac" THEN Dirac_sample(h, self, size) ELSE Err("Unmodelled")

(***************************************************************************)
(* Unary operators.                                                        *)
(***************************************************************************)
\* Dirac.__neg__: negates the support of self in place and returns self
Dirac_neg(h, self) == Ret([h EXCEPT ![self].support = VNeg(@)], self)

\* Dirac.__pos__
Dirac_pos(h, self) == Ret(h, self)

\* Dirac.__abs__
Dirac_abs(h, self) ==
    Ret([h EXCEPT ![self].support = Val(@.sh, @.t, Abs(@.n), @.d)], self)

\* Dirac.__invert__: operator.invert of the support, in place
Dirac_invert(h, self) ==
    LET v == VInvert(h[self].support)
    IN  IF v.err # "none" THEN Raise(h, v.err)
        ELSE Ret([h EXCEPT ![self].support = v.v], self)

\* Distribution.__neg__
Distribution_neg(h, self) ==
    Alloc(h, MkGeneric("neg", NoVal, "base", NoVal, self, NoVal, h[self].rs))

\* Distribution.__pos__
Distribution_pos(h, self) ==
    Alloc(h, MkGeneric("pos", NoVal, "base", NoVal, self, NoVal, h[self].rs))

\* Distribution.__abs__: a sampler only
Distribution_abs(h, self) ==
    Alloc(h, MkGeneric("none", NoVal, "none", NoVal, self, NoVal, h[self].rs))

\* Distribution.__invert__: a sampler only
Distribution_invert(h, self) ==
    Alloc(h, MkGeneric("none", NoVal, "none", NoVal, self, NoVal, h[self].rs))

\* Normal.__init__: both parameters scalars, or both arrays whose leading
\* dimensions agree
Normal_init(h, m, c, rs) ==
    IF isscalar(m) /\ isscalar(c) THEN Alloc(h, MkNormal(m, c, rs))
    ELSE IF ~isscalar(m) /\ ~isscalar(c)
    THEN IF Len(c.sh) < 2 THEN Raise(h, "IndexError")
         ELSE IF m.sh[1] = c.sh[1] /\ m.sh[1] = c.sh[2] THEN Alloc(h, MkNormal(m, c, rs))
         ELSE Raise(h, "ValueError")
    ELSE Raise(h, "ValueError")

\* what Normal.__neg__ and __pos__ make of the constructor's outcome r: any
\* exception becomes NotImplementedError
NormalOrUnsupported(h, r) == IF r.err # "none" THEN Raise(h, "NotImplementedError") ELSE r

\* a faulty Normal.__neg__: negates the mean of self in place and returns self
Normal_neg_InPlace(h, self) == Ret([h EXCEPT ![self].mean = VNeg(@)], self)

\* Normal.__neg__: Normal(mean=-mean, cov=cov, random_state=random_state)
Normal_neg(h, self) ==
    NormalOrUnsupported(h, Normal_init(h, VNeg(h[self].mean), h[self].cov, h[self].rs))

\* Normal.__pos__
Normal_pos(h, self) ==
    NormalOrUnsupported(h, Normal_init(h, h[self].mean, h[self].cov, h[self].rs))

\* Normal.__abs__: a generic Distribution with a sampler only
Normal_abs(h, self) ==
    Alloc(h, MkGeneric("none", NoVal, "none", NoVal, self, NoVal, h[self].rs))

\* Normal.__invert__: a generic Distribution with a sampler only
Normal_invert(h, self) ==
    Alloc(h, MkGeneric("none", NoVal, "none", NoVal, self, NoVal, h[self].rs))

(***************************************************************************)
(* Binary operators that call no other operator method.                    *)
(***************************************************************************)
\* a faulty Distribution.__add__: the constant is not captured
Distribution_add_Uncaptured(h, self, other) ==
    LET a == asdistribution(h, other)
    IN  IF a.h[a.ref].cls = "Dirac"
        THEN Alloc(a.h, MkGeneric("shift", NoVal, "base", NoVal, self,
                                  Val(a.h[a.ref].support.sh, "int", 0, 1), a.h[self].rs))
        ELSE Raise(a.h, "NotImplementedError")

\* Distribution.__add__
Distribution_add(h, self, other) ==
    LET a == asdistribution(h, other)
    IN  IF a.h[a.ref].cls = "Dirac"
        THEN Alloc(a.h, MkGeneric("shift", NoVal, "base", NoVal, self,
                                  a.h[a.ref].support, a.h[self].rs))
        ELSE Raise(a.h, "NotImplementedError")

\* a faulty Distribution.__mul__: no special case for a zero constant
Distribution_mul_NoZeroCase(h, self, other) ==
    LET a == asdistribution(h, other)
        delta == a.h[a.ref].support
    IN  IF a.h[a.ref].cls # "Dirac" THEN Raise(a.h, "NotImplementedError")
        ELSE Alloc(a.h, MkGeneric("scale", NoVal, "scale", NoVal, self, delta, a.h[self].rs))

\* Distribution.__mul__
Distribution_mul(h, self, other) ==
    LET a == asdistribution(h, other)
        delta == a.h[a.ref].support
        z == VIsZero(delta)
        m == mean(a.h, self)
        zero == VMul(PyInt(0), m.v)
    IN  IF a.h[a.ref].cls # "Dirac" THEN Raise(a.h, "NotImplementedError")
        ELSE IF z = "ValueError" THEN Raise(a.h, "ValueError")
        ELSE IF z = "True"
        THEN IF m.err # "none" THEN Raise(a.h, m.err)
             ELSE Alloc(a.h, MkDirac(zero.v, a.h[self].rs))
        ELSE Alloc(a.h, MkGeneric("scale", NoVal, "scale", NoVal, self, delta, a.h[self].rs))

\* Distribution.__matmul__: `delta @ self.var @ delta.T` is evaluated when the
\* result is built, and self.var there is the method, not its value
Distribution_matmul(h, self, other) ==
    LET a == asdistribution(h, other)
    IN  IF a.h[a.ref].cls # "Dirac" THEN Raise(a.h, "NotImplementedError")
        ELSE IF isscalar(a.h[a.ref].support) THEN Raise(a.h, "TypeError")
        ELSE Raise(a.h, "ValueError")

\* Distribution.__rmatmul__
Distribution_rmatmul(h, self, other) ==
    LET a == asdistribution(h, other)
    IN  IF a.h[a.ref].cls # "Dirac" THEN Raise(a.h, "NotImplementedError")
        ELSE IF isscalar(a.h[a.ref].support) THEN Raise(a.h, "TypeError")
        ELSE Raise(a.h, "ValueError")

\* Distribution.__pow__
Distribution_pow(h, self, power) == Raise(h, "NotImplementedError")

\* Distribution.__rpow__
Distribution_rpow(h, self, power) == Raise(h, "NotImplementedError")

\* a faulty Normal.__add__: the mean is not shifted by the constant
Normal_add_Unshifted(h, self, other) ==
    LET a == asdistribution(h, other)
    IN  IF a.h[a.ref].cls # "Dirac" THEN Raise(a.h, "NotImplementedError")
        ELSE Normal_init(a.h, a.h[self].mean, a.h[self].cov, a.h[self].rs)

\* Normal.__add__
Normal_add(h, self, other) ==
    LET a == asdistribution(h, other)
        m == VAdd(a.h[self].mean, a.h[a.ref].support)
    IN  IF a.h[a.ref].cls # "Dirac" THEN Raise(a.h, "NotImplementedError")
        ELSE IF m.err # "none" THEN Raise(a.h, m.err)
        ELSE Normal_init(a.h, m.v, a.h[self].cov, a.h[self].rs)

\* a faulty Normal.__mul__: the covariance is scaled by delta, not delta ** 2
Normal_mul_Unsquared(h, self, other) ==
    LET a == asdistribution(h, other)
        delta == a.h[a.ref].support
        z == VIsZero(delta)
        zero == VMul(PyInt(0), a.h[self].mean)
        m == VMul(a.h[self].mean, delta)
        c == VMul(a.h[self].cov, delta)
    IN  IF a.h[a.ref].cls # "Dirac" THEN Raise(a.h, "NotImplementedError")
        ELSE IF z = "ValueError" THEN Raise(a.h, "ValueError")
        ELSE IF z = "True" THEN Alloc(a.h, MkDirac(zero.v, a.h[self].rs))
        ELSE IF m.err # "none" THEN Raise(a.h, m.err)
        ELSE IF c.err # "none" THEN Raise(a.h, c.err)
        ELSE Normal_init(a.h, m.v, c.v, a.h[self].rs)

\* Normal.__mul__
Normal_mul(h, self, other) ==
    LET a == asdistribution(h, other)
        delta == a.h[a.ref].support
        z == VIsZero(delta)
        zero == VMul(PyInt(0), a.h[self].mean)
        m == VMul(a.h[self].mean, delta)
        c == VMul(a.h[self].cov, VSquare(delta))
    IN  IF a.h[a.ref].cls # "Dirac" THEN Raise(a.h, "NotImplementedError")
        ELSE IF z = "ValueError" THEN Raise(a.h, "ValueError")
        ELSE IF z = "True" THEN Alloc(a.h, MkDirac(zero.v, a.h[self].rs))
        ELSE IF m.err # "none" THEN Raise(a.h, m.err)
        ELSE IF c.err # "none" THEN Raise(a.h, c.err)
        ELSE Normal_init(a.h, m.v, c.v, a.h[self].rs)

\* the parameters Normal.__matmul__ and Normal.__rmatmul__ compute, the mean
\* first: m1 @ m2, then (delta @ cov) @ delta.T
NormalMatmulParams(h, self, m1, m2, delta, rs) ==
    LET m == VMatMul(m1, m2)
        dc == VMatMul(delta, h[self].cov)
        t == VTranspose(delta)
        c == VMatMul(dc.v, t.v)
    IN  IF m.err # "none" THEN Raise(h, m.err)
        ELSE IF dc.err # "none" THEN Raise(h, dc.err)
        ELSE IF t.err # "none" THEN Raise(h, t.err)
        ELSE IF c.err # "none" THEN Raise(h, c.err)
        ELSE Normal_init(h, m.v, c.v, rs)

\* what a faulty Normal.__matmul__ makes of the outcome r: the new
\* parameters are stored in self, which is returned
StoredInSelf(h, self, r) ==
    IF r.err # "none" THEN Raise(h, r.err) ELSE Ret([h EXCEPT ![self] = r.h[r.ref]], self)

\* a faulty Normal.__matmul__: updates self in place
Normal_matmul_InPlace(h, self, other) ==
    LET a == asdistribution(h, other)
        delta == a.h[a.ref].support
    IN  IF a.h[a.ref].cls # "Dirac" THEN Raise(a.h, "NotImplementedError")
        ELSE StoredInSelf(a.h, self,
                          NormalMatmulParams(a.h, self, a.h[self].mean, delta, delta, a.h[self].rs))

\* Normal.__matmul__
Normal_matmul(h, self, other) ==
    LET a == asdistribution(h, other)
        delta == a.h[a.ref].support
    IN  IF a.h[a.ref].cls # "Dirac" THEN Raise(a.h, "NotImplementedError")
        ELSE NormalMatmulParams(a.h, self, a.h[self].mean, delta, delta, a.h[self].rs)

\* Normal.__rmatmul__
Normal_rmatmul(h, self, other) ==
    LET a == asdistribution(h, other)
        delta == a.h[a.ref].support
    IN  IF a.h[a.ref].cls # "Dirac" THEN Raise(a.h, "NotImplementedError")
        ELSE NormalMatmulParams(a.h, self, delta, a.h[self].mean, delta, a.h[self].rs)

\* a faulty Normal.__pow__: the operand is returned as if the power were 1
Normal_pow_Identity(h, self, power) == Ret(h, self)

\* Normal.__pow__
Normal_pow(h, self, power) == Raise(h, "NotImplementedError")

\* Normal.__rpow__
Normal_rpow(h, self, power) == Raise(h, "NotImplementedError")

(***************************************************************************)
(* Dirac's operators and the operators that are written in terms of other  *)
(* operators.  Where the source writes an operator expression (`self +     *)
(* otherdist`) Python evaluates it, BinaryOp below; where it calls a       *)
(* method of the other operand (`other.__rsub__(other=self)`) the method   *)
(* of that operand's class runs, Method and ReflectedMethod below.         *)
(***************************************************************************)
RECURSIVE Method(_, _, _, _)
RECURSIVE ReflectedMethod(_, _, _, _)
RECURSIVE BinaryOp(_, _, _, _)

\* self.parameters["support"] = v; return self
SetSupport(h, self, v) ==
    IF v.err # "none" THEN Raise(h, v.err)
    ELSE Ret([h EXCEPT ![self].support = v.v], self)

\* a faulty Dirac.__add__: a Dirac operand's support replaces self's
Dirac_add_Overwrite(h, self, other) ==
    LET a == asdistribution(h, other)
    IN  IF a.h[a.ref].cls = "Dirac"
        THEN SetSupport(a.h, self, Ok(a.h[a.ref].support))
        ELSE Method(a.h, "add", a.ref, ObjArg(self))

\* Dirac.__add__: else other.__add__(other=self)
Dirac_add(h, self, other) ==
    LET a == asdistribution(h, other)
    IN  IF a.h[a.ref].cls = "Dirac"
        THEN SetSupport(a.h, self, VAdd(a.h[self].support, a.h[a.ref].support))
        ELSE Method(a.h, "add", a.ref, ObjArg(self))

\* a faulty Dirac.__sub__: the difference of two Diracs is a new Dirac
Dirac_sub_Fresh(h, self, other) ==
    LET a == asdistribution(h, other)
        v == VSub(a.h[self].support, a.h[a.ref].support)
    IN  IF a.h[a.ref].cls = "Dirac"
        THEN IF v.err # "none" THEN Raise(a.h, v.err) ELSE Alloc(a.h, MkDirac(v.v, a.h[self].rs))
        ELSE ReflectedMethod(a.h, "sub", a.ref, ObjArg(self))

\* Dirac.__sub__: else other.__rsub__(other=self)
Dirac_sub(h, self, other) ==
    LET a == asdistribution(h, other)
    IN  IF a.h[a.ref].cls = "Dirac"
        THEN SetSupport(a.h, self, VSub(a.h[self].support, a.h[a.ref].support))
        ELSE ReflectedMethod(a.h, "sub", a.ref, ObjArg(self))

\* Dirac.__mul__: else other.__mul__(other=self)
Dirac_mul(h, self, other) ==
    LET a == asdistribution(h, other)
    IN  IF a.h[a.ref].cls = "Dirac"
        THEN SetSupport(a.h, self, VMul(a.h[self].support, a.h[a.ref].support))
        ELSE Method(a.h, "mul", a.ref, ObjArg(self))

\* Dirac.__matmul__: else other.__rmatmul__(other=self)
Dirac_matmul(h, self, other) ==
    LET a == asdistribution(h, other)
    IN  IF a.h[a.ref].cls = "Dirac"
        THEN SetSupport(a.h, self, VMatMul(a.h[self].support, a.h[a.ref].support))
        ELSE ReflectedMethod(a.h, "matmul", a.ref, ObjArg(self))

\* Dirac.__truediv__: else other.__rtruediv__(other=self)
Dirac_truediv(h, self, other) ==
    LET a == asdistribution(h, other)
    IN  IF a.h[a.ref].cls = "Dirac"
        THEN SetSupport(a.h, self, VTrueDiv(a.h[self].support, a.h[a.ref].support))
        ELSE ReflectedMethod(a.h, "truediv", a.ref, ObjArg(self))

\* Dirac.__pow__: for a power that is no Dirac the source calls
\* power.__rtruediv__(other=self, modulo=modulo), and no __rtruediv__ takes a
\* parameter named modulo
Dirac_pow(h, self, power) ==
    LET a == asdistribution(h, power)
    IN  IF a.h[a.ref].cls = "Dirac"
        THEN SetSupport(a.h, self, VPow(a.h[self].support, a.h[a.ref].support))
        ELSE Raise(a.h, "TypeError")

\* Dirac.__radd__: asdistribution(other).__add__(other=self)
Dirac_radd(h, self, other) ==
    LET a == asdistribution(h, other)
    IN  Method(a.h, "add", a.ref, ObjArg(self))

\* Dirac.__rsub__: asdistribution(other).__sub__(other=self)
Dirac_rsub(h, self, other) ==
    LET a == asdistribution(h, other)
    IN  Method(a.h, "sub", a.ref, ObjArg(self))

\* Dirac.__rmul__: asdistribution(other).__mul__(other=self)
Dirac_rmul(h, self, other) ==
    LET a == asdistribution(h, other)
    IN  Method(a.h, "mul", a.ref, ObjArg(self))

\* Dirac.__rmatmul__: asdistribution(other).__matmul__(other=self)
Dirac_rmatmul(h, self, other) ==
    LET a == asdistribution(h, other)
    IN  Method(a.h, "matmul", a.ref, ObjArg(self))

\* Dirac.__rtruediv__: asdistribution(other).__truediv__(other=self)
Dirac_rtruediv(h, self, other) ==
    LET a == asdistribution(h, other)
    IN  Method(a.h, "truediv", a.ref, ObjArg(self))

\* Dirac.__rpow__: asdistribution(power).__pow__(power=self)
Dirac_rpow(h, self, power) ==
    LET a == asdistribution(h, power)
    IN  Method(a.h, "pow", a.ref, ObjArg(self))

\* Distribution.__sub__: self + (-otherdist)
Distribution_sub(h, self, other) ==
    LET a == asdistribution(h, other)
        n == Dirac_neg(a.h, a.ref)
    IN  IF a.h[a.ref].cls # "Dirac" THEN Raise(a.h, "NotImplementedError")
        ELSE BinaryOp(n.h, "add", ObjArg(self), ObjArg(n.ref))

\* Distribution.__radd__: self + otherdist
Distribution_radd(h, self, other) ==
    LET a == asdistribution(h, other)
    IN  IF a.h[a.ref].cls # "Dirac" THEN Raise(a.h, "NotImplementedError")
        ELSE BinaryOp(a.h, "add", ObjArg(self), ObjArg(a.ref))

\* Distribution.__rsub__: operator.neg(self) + otherdist
Distribution_rsub(h, self, other) ==
    LET a == asdistribution(h, other)
        n == Distribution_neg(a.h, self)
    IN  IF a.h[a.ref].cls # "Dirac" THEN Raise(a.h, "NotImplementedError")
        ELSE BinaryOp(n.h, "add", ObjArg(n.ref), ObjArg(a.ref))

\* Distribution.__rmul__: self * otherdist
Distribution_rmul(h, self, other) ==
    LET a == asdistribution(h, other)
    IN  IF a.h[a.ref].cls # "Dirac" THEN Raise(a.h, "NotImplementedError")
        ELSE BinaryOp(a.h, "mul", ObjArg(self), ObjArg(a.ref))

\* the test `other == 0` that opens __truediv__: by value for a number,
\* ambiguous for an array, and by identity (so false) for a Distribution
\* object, whose class defines no __eq__
OtherIsZero(other) == IF other.k = "obj" THEN "False" ELSE VIsZero(other.v)

\* Distribution.__truediv__: self * operator.inv(otherdist)
Distribution_truediv(h, self, other) ==
    LET z == OtherIsZero(other)
        a == asdistribution(h, other)
        i == Dirac_invert(a.h, a.ref)
    IN  IF z = "True" THEN Raise(h, "ZeroDivisionError")
        ELSE IF z = "ValueError" THEN Raise(h, "ValueError")
        ELSE IF a.h[a.ref].cls # "Dirac" THEN Raise(a.h, "NotImplementedError")
        ELSE IF i.err # "none" THEN i
        ELSE BinaryOp(i.h, "mul", ObjArg(self), ObjArg(i.ref))

\* Distribution.__rtruediv__: operator.inv(self) * otherdist
Distribution_rtruediv(h, self, other) ==
    LET a == asdistribution(h, other)
        i == Distribution_invert(a.h, self)
    IN  IF a.h[a.ref].cls # "Dirac" THEN Raise(a.h, "NotImplementedError")
        ELSE BinaryOp(i.h, "mul", ObjArg(i.ref), ObjArg(a.ref))

\* a faulty Normal.__sub__: the constant is added, not subtracted
Normal_sub_Unnegated(h, self, other) ==
    LET a == asdistribution(h, other)
    IN  IF a.h[a.ref].cls # "Dirac" THEN Raise(a.h, "NotImplementedError")
        ELSE BinaryOp(a.h, "add", ObjArg(self), ObjArg(a.ref))

\* Normal.__sub__: self + (-otherdist)
Normal_sub(h, self, other) ==
    LET a == asdistribution(h, other)
        n == Dirac_neg(a.h, a.ref)
    IN  IF a.h[a.ref].cls # "Dirac" THEN Raise(a.h, "NotImplementedError")
        ELSE BinaryOp(n.h, "add", ObjArg(self), ObjArg(n.ref))

\* Normal.__truediv__: self * operator.inv(otherdist)
Normal_truediv(h, self, other) ==
    LET z == OtherIsZero(other)
        a == asdistribution(h, other)
        i == Dirac_invert(a.h, a.ref)
    IN  IF z = "True" THEN Raise(h, "ZeroDivisionError")
        ELSE IF z = "ValueError" THEN Raise(h, "ValueError")
        ELSE IF a.h[a.ref].cls # "Dirac" THEN Raise(a.h, "NotImplementedError")
        ELSE IF i.err # "none" THEN i
        ELSE BinaryOp(i.h, "mul", ObjArg(self), ObjArg(i.ref))

\* Normal.__radd__: self + otherdist
Normal_radd(h, self, other) ==
    LET a == asdistribution(h, other)
    IN  IF a.h[a.ref].cls # "Dirac" THEN Raise(a.h, "NotImplementedError")
        ELSE BinaryOp(a.h, "add", ObjArg(self), ObjArg(a.ref))

\* a faulty Normal.__rsub__: self - otherdist, the operands in the wrong order
Normal_rsub_Swapped(h, self, other) ==
    LET a == asdistribution(h, other)
    IN  IF a.h[a.ref].cls # "Dirac" THEN Raise(a.h, "NotImplementedError")
        ELSE BinaryOp(a.h, "sub", ObjArg(self), ObjArg(a.ref))

\* Normal.__rsub__: operator.neg(self) + otherdist
Normal_rsub(h, self, other) ==
    LET a == asdistribution(h, other)
        n == Normal_neg(a.h, self)
    IN  IF a.h[a.ref].cls # "Dirac" THEN Raise(a.h, "NotImplementedError")
        ELSE IF n.err # "none" THEN n
        ELSE BinaryOp(n.h, "add", ObjArg(n.ref), ObjArg(a.ref))

\* Normal.__rmul__: self * otherdist
Normal_rmul(h, self, other) ==
    LET a == asdistribution(h, other)
    IN  IF a.h[a.ref].cls # "Dirac" THEN Raise(a.h, "NotImplementedError")
        ELSE BinaryOp(a.h, "mul", ObjArg(self), ObjArg(a.ref))

\* Normal.__rtruediv__: operator.inv(self) * otherdist
Normal_rtruediv(h, self, other) ==
    LET a == asdistribution(h, other)
        i == Normal_invert(a.h, self)
    IN  IF a.h[a.ref].cls # "Dirac" THEN Raise(a.h, "NotImplementedError")
        ELSE BinaryOp(i.h, "mul", ObjArg(i.ref), ObjArg(a.ref))

(***************************************************************************)
(* Python's evaluation of `a op b` and of `-a`, `+a`, `abs(a)`, `~a`.      *)
(***************************************************************************)
BinaryOps == {"add", "sub", "mul", "matmul", "truediv", "pow"}

UnaryOps == {"neg", "pos", "abs", "invert"}

\* type(self).__op__(self, other)
Method(h, op, self, other) ==
    LET c == h[self].cls
    IN  CASE c = "Dirac" /\ op = "add" -> Dirac_add(h, self, other)
          [] c = "Dirac" /\ op = "sub" -> Dirac_sub(h, self, other)
          [] c = "Dirac" /\ op = "mul" -> Dirac_mul(h, self, other)
          [] c = "Dirac" /\ op = "matmul" -> Dirac_matmul(h, self, other)
          [] c = "Dirac" /\ op = "truediv" -> Dirac_truediv(h, self, other)
          [] c = "Dirac" /\ op = "pow" -> Dirac_pow(h, self, other)
          [] c = "Normal" /\ op = "add" -> Normal_add(h, self, other)
          [] c = "Normal" /\ op = "sub" -> Normal_sub(h, self, other)
          [] c = "Normal" /\ op = "mul" -> Normal_mul(h, self, other)
          [] c = "Normal" /\ op = "matmul" -> Normal_matmul(h, self, other)
          [] c = "Normal" /\ op = "truediv" -> Normal_truediv(h, self, other)
          [] c = "Normal" /\ op = "pow" -> Normal_pow(h, self, other)
          [] c = "Distribution" /\ op = "add" -> Distribution_add(h, self, other)
          [] c = "Distribution" /\ op = "sub" -> Distribution_sub(h, self, other)
          [] c = "Distribution" /\ op = "mul" -> Distribution_mul(h, self, other)
          [] c = "Distribution" /\ op = "matmul" -> Distribution_matmul(h, self, other)
          [] c = "Distribution" /\ op = "truediv" -> Distribution_truediv(h, self, other)
          [] c = "Distribution" /\ op = "pow" -> Distribution_pow(h, self, other)

\* type(self).__rop__(self, other)
ReflectedMethod(h, op, self, other) ==
    LET c == h[self].cls
    IN  CASE c = "Dirac" /\ op = "add" -> Dirac_radd(h, self, other)
          [] c = "Dirac" /\ op = "sub" -> Dirac_rsub(h, self, other)
          [] c = "Dirac" /\ op = "mul" -> Dirac_rmul(h, self, other)
          [] c = "Dirac" /\ op = "matmul" -> Dirac_rmatmul(h, self, other)
          [] c = "Dirac" /\ op = "truediv" -> Dirac_rtruediv(h, self, other)
          [] c = "Dirac" /\ op = "pow" -> Dirac_rpow(h, self, other)
          [] c = "Normal" /\ op = "add" -> Normal_radd(h, self, other)
          [] c = "Normal" /\ op = "sub" -> Normal_rsub(h, self, other)
          [] c = "Normal" /\ op = "mul" -> Normal_rmul(h, self, other)
          [] c = "Normal" /\ op = "matmul" -> Normal_rmatmul(h, self, other)
          [] c = "Normal" /\ op = "truediv" -> Normal_rtruediv(h, self, other)
          [] c = "Normal" /\ op = "pow" -> Normal_rpow(h, self, other)
          [] c = "Distribution" /\ op = "add" -> Distribution_radd(h, self, other)
          [] c = "Distribution" /\ op = "sub" -> Distribution_rsub(h, self, other)
          [] c = "Distribution" /\ op = "mul" -> Distribution_rmul(h, self, other)
          [] c = "Distribution" /\ op = "matmul" -> Distribution_rmatmul(h, self, other)
          [] c = "Distribution" /\ op = "truediv" -> Distribution_rtruediv(h, self, other)
          [] c = "Distribution" /\ op = "pow" -> Distribution_rpow(h, self, other)

\* `a op b` where at least one operand is a Distribution object.  A raw
\* number on the left has no method for a Distribution, so the right
\* operand's reflected method runs; the reflected method of the right operand
\* also runs first when its class is a proper subclass of the left one's
\* (a Dirac or a Normal right of a generic Distribution).
BinaryOp(h, op, a, b) ==
    IF \/ a.k = "raw"
       \/ b.k = "obj" /\ h[a.id].cls = "Distribution" /\ h[b.id].cls # "Distribution"
    THEN ReflectedMethod(h, op, b.id, a)
    ELSE Method(h, op, a.id, b)

\* `-a`, `+a`, `abs(a)`, `~a` on a Distribution object
UnaryOp(h, op, self) ==
    LET c == h[self].cls
    IN  CASE c = "Dirac" /\ op = "neg" -> Dirac_neg(h, self)
          [] c = "Dirac" /\ op = "pos" -> Dirac_pos(h, self)
          [] c = "Dirac" /\ op = "abs" -> Dirac_abs(h, self)
          [] c = "Dirac" /\ op = "invert" -> Dirac_invert(h, self)
          [] c = "Normal" /\ op = "neg" -> Normal_neg(h, self)
          [] c = "Normal" /\ op = "pos" -> Normal_pos(h, self)
          [] c = "Normal" /\ op = "abs" -> Normal_abs(h, self)
          [] c = "Normal" /\ op = "invert" -> Normal_invert(h, self)
          [] c = "Distribution" /\ op = "neg" -> Distribution_neg(h, self)
          [] c = "Distribution" /\ op = "pos" -> Distribution_pos(h, self)
          [] c = "Distribution" /\ op = "abs" -> Distribution_abs(h, self)
          [] c = "Distribution" /\ op = "invert" -> Distribution_invert(h, self)

(***************************************************************************)
(* Augmented assignments `a op= b`.  Python calls type(a).__iop__(a, b)     *)
(* and binds a to what it returns; an exception the method raises leaves   *)
(* the binding alone.                                                      *)
(***************************************************************************)
\* Distribution.__iadd__ .. __ipow__: raise NotImplementedError
Distribution_iop(h, op, self, other) == Raise(h, "NotImplementedError")

\* a faulty Normal.__iadd__ .. __ipow__: a silent no-op that returns self
Normal_iop_Silent(h, op, self, other) == Ret(h, self)

\* Normal.__iadd__ .. __ipow__: raise NotImplementedError
Normal_iop(h, op, self, other) == Raise(h, "NotImplementedError")

\* Dirac.__iadd__ .. __ipow__: a Dirac operand updates the support of self
Dirac_iop(h, op, self, other) ==
    LET a == asdistribution(h, other)
        x == a.h[self].support
        y == a.h[a.ref].support
    IN  IF a.h[a.ref].cls # "Dirac" THEN Raise(a.h, "NotImplementedError")
        ELSE SetSupport(a.h, self,
                        CASE op = "add" -> VAdd(x, y)
                          [] op = "sub" -> VSub(x, y)
                          [] op = "mul" -> VMul(x, y)
                          [] op = "matmul" -> VMatMul(x, y)
                          [] op = "truediv" -> VTrueDiv(x, y)
                          [] op = "pow" -> VPow(x, y))

\* type(self).__iop__(self, other)
InplaceOp(h, op, self, other) ==
    CASE h[self].cls = "Dirac" -> Dirac_iop(h, op, self, other)
      [] h[self].cls = "Normal" -> Normal_iop(h, op, self, other)
      [] h[self].cls = "Distribution" -> Distribution_iop(h, op, self, other)

(***************************************************************************)
(* RandomVariable.  A random variable is a record of its _shape, _dtype    *)
(* and the identity of its _distribution; rvs is the sequence of the       *)
(* random variables made so far.                                           *)
(***************************************************************************)
RvRet(h, r, ref) == [h |-> h, rvs |-> r, err |-> "none", ref |-> ref]

RvRaise(h, r, e) == [h |-> h, rvs |-> r, err |-> e, ref |-> 0]

RvArg(i) == [k |-> "rv", id |-> i, v |-> NoVal]

\* a faulty RandomVariable.__init__: a dtype the caller supplies is kept
RandomVariable_init_KeepDtype(h, r, shape, dtype, distribution) ==
    LET m == mean(h, distribution)
        shape_mean == IF isscalar(m.v) THEN <<>> ELSE m.v.sh
    IN  IF m.err # "none" THEN RvRaise(h, r, m.err)
        ELSE IF shape_mean # shape THEN RvRaise(h, r, "ValueError")
        ELSE RvRet(h, Append(r, [shape |-> shape_mean,
                                 dtype |-> IF dtype = "None" THEN DtypeOf(m.v) ELSE dtype,
                                 distribution |-> distribution]),
                   Len(r) + 1)

\* RandomVariable.__init__ with a distribution: distribution.mean is a bound
\* method, never None, so the mean is always evaluated
RandomVariable_init(h, r, shape, dtype, distribution) ==
    LET m == mean(h, distribution)
        shape_mean == IF isscalar(m.v) THEN <<>> ELSE m.v.sh
    IN  IF m.err # "none" THEN RvRaise(h, r, m.err)
        ELSE IF shape_mean # shape THEN RvRaise(h, r, "ValueError")
        ELSE RvRet(h, Append(r, [shape |-> shape_mean, dtype |-> DtypeOf(m.v),
                                 distribution |-> distribution]),
                   Len(r) + 1)

\* asrandomvariable: a RandomVariable is returned as it is; a number or an
\* array becomes a new RandomVariable over a new Dirac
asrandomvariable(h, r, x) ==
    IF x.k = "rv" THEN RvRet(h, r, x.id)
    ELSE RandomVariable_init(Append(h, MkDirac(x.v, 0)), r, x.v.sh, DtypeOf(x.v), Len(h) + 1)

\* RandomVariable(distribution=d) for the outcome d of an operator on the
\* distributions: the shape argument is left at its default ()
RvOfResult(r, d) ==
    IF d.err # "none" THEN RvRaise(d.h, r, d.err)
    ELSE RandomVariable_init(d.h, r, <<>>, "None", d.ref)

\* op(self.distribution, other_rv.distribution) for the coerced operand o
RvOfOperands(self, op, o) ==
    IF o.err # "none" THEN o
    ELSE RvOfResult(o.rvs, BinaryOp(o.h, op, ObjArg(o.rvs[self].distribution),
                                    ObjArg(o.rvs[o.ref].distribution)))

\* RandomVariable._rv_from_op
rv_from_op(h, r, self, other, op) == RvOfOperands(self, op, asrandomvariable(h, r, other))

\* other_rv._rv_from_op(other=self, op=op) for the coerced operand o
RvOfReflected(self, op, o) ==
    IF o.err # "none" THEN o
    ELSE rv_from_op(o.h, o.rvs, o.ref, RvArg(self), op)

\* RandomVariable.__radd__ .. __rpow__: the other operand is coerced and
\* becomes the left operand
rv_from_rop(h, r, self, other, op) == RvOfReflected(self, op, asrandomvariable(h, r, other))

\* `a op b` on random variables: a.__op__(b), or b.__rop__(a) for a raw a
RvBinaryOp(h, r, op, a, b) ==
    IF a.k = "rv" THEN rv_from_op(h, r, a.id, b, op)
    ELSE rv_from_rop(h, r, b.id, a, op)

\* RandomVariable(shape=self.shape, dtype=self.dtype, distribution=d) for the
\* outcome d of a unary operator on self.distribution
RvOfUnary(r, self, d) ==
    IF d.err # "none" THEN RvRaise(d.h, r, d.err)
    ELSE RandomVariable_init(d.h, r, r[self].shape, r[self].dtype, d.ref)

\* RandomVariable.__neg__, __pos__, __abs__
RvUnaryOp(h, r, op, self) == RvOfUnary(r, self, UnaryOp(h, op, r[self].distribution))

\* RandomVariable.__iadd__ .. __ipow__: raise NotImplementedError
RvInplaceOp(h, r, op, self, other) == RvRaise(h, r, "NotImplementedError")

\* RandomVariable.sample: self._distribution.sample(size=size)
RandomVariable_sample(h, r, self, size) == Sample(h, r[self].distribution, size)

(***************************************************************************)
(* The state: the objects of a run and the calls made on them.             *)
(*   heap   the Distribution objects allocated so far                      *)
(*   rvs    the RandomVariable objects made so far                         *)
(*   calls  the calls made so far, each a record of what was called (kind, *)
(*          op), its operands (a, b, and shape and dtype for a             *)
(*          RandomVariable construction), the heap and the random          *)
(*          variables before the call (pre, prervs), the exception it      *)
(*          raised (err, "none" if it returned) and the object (ref) or    *)
(*          the number (val) it returned, and the size argument of a draw  *)
(* A run starts from the operands of an expression, distributions a caller *)
(* has constructed, and applies operators to the objects it has.           *)
(***************************************************************************)
VARIABLES heap, rvs, calls

vars == <<heap, rvs, calls>>

NoArg == [k |-> "none", id |-> 0, v |-> NoVal]

NoCall ==
    [kind |-> "none", op |-> "none", a |-> NoArg, b |-> NoArg, shape |-> <<>>,
     dtype |-> "None", pre |-> <<>>, prervs |-> <<>>, err |-> "none", ref |-> 0,
     val |-> NoVal, size |-> NoSize]

Call(kind, op, a, b, err, ref) ==
    [NoCall EXCEPT !.kind = kind, !.op = op, !.a = a, !.b = b,
                   !.pre = heap, !.prervs = rvs, !.err = err, !.ref = ref]

\* the most recent call
last == IF calls = <<>> THEN NoCall ELSE calls[Len(calls)]

\* the numbers a caller passes as raw operands
Scalars == {PyInt(0), PyInt(2), PyFloat(1, 2)}

\* the distributions a caller constructs: Dirac(support), Normal(mean, cov),
\* Distribution() and Distribution(mean=lambda: 1, var=lambda: 1)
Operands ==
    << MkDirac(PyInt(0), 0), MkDirac(PyInt(2), 0), MkDirac(PyFloat(1, 2), 0),
       MkDirac(Full(<<2>>, PyInt(1)), 0),
       MkNormal(PyInt(1), PyInt(2), 0), MkNormal(PyFloat(1, 2), PyInt(1), 0),
       MkNormal(Full(<<2>>, PyInt(1)), Full(<<2, 2>>, PyInt(1)), 0),
       MkGeneric("none", NoVal, "none", NoVal, 0, NoVal, 0),
       MkGeneric("fn", PyInt(1), "fn", PyInt(1), 0, NoVal, 0) >>

\* the shapes and dtypes a caller passes to RandomVariable
Shapes == {<<>>, <<2>>}

Dtypes == {"None", "int64", "float64"}

\* every number stored in the objects of h is within the bounds
HeapInBounds(h) ==
    \A i \in 1..Len(h) :
        /\ VInBounds(h[i].support) /\ VInBounds(h[i].mean)
        /\ VInBounds(h[i].cov) /\ VInBounds(h[i].delta)

\* the heaps of two operands; which of two operands is built first makes no
\* difference, so the second is never earlier in Operands than the first
TwoOperands ==
    UNION {{<<Operands[i], Operands[j]>> : j \in i..Len(Operands)} : i \in 1..Len(Operands)}

Init ==
    /\ heap \in TwoOperands
    /\ rvs = <<>>
    /\ calls = <<>>

\* the call `a op b` on distributions ends as r says: the heap is the one it
\* leaves, and the call is recorded with its outcome
Returns(op, a, b, r) ==
    /\ r.err # "Unmodelled"
    /\ HeapInBounds(r.h)
    /\ heap' = r.h
    /\ calls' = Append(calls, Call("dist", op, a, b, r.err, r.ref))
    /\ UNCHANGED rvs

\* the operands of a binary operator on distributions
DistArgs == {ObjArg(i) : i \in 1..Len(heap)} \cup {RawArg(v) : v \in Scalars}

\* a op b on distributions, one of them at least a Distribution object
DistBinary ==
    /\ Len(calls) < MaxOps
    /\ \E op \in BinaryOps, a \in DistArgs, b \in DistArgs :
         /\ a.k = "obj" \/ b.k = "obj"
         /\ Returns(op, a, b, BinaryOp(heap, op, a, b))

\* -a, +a, abs(a), ~a on a Distribution object
DistUnary ==
    /\ Len(calls) < MaxOps
    /\ \E op \in UnaryOps, i \in 1..Len(heap) :
         Returns(op, ObjArg(i), NoArg, UnaryOp(heap, op, i))

Next == DistBinary \/ DistUnary

Spec == Init /\ [][Next]_vars

(***************************************************************************)
(* Chains of affine maps: a run starts from one Normal, alone or with one   *)
(* Dirac, and applies +, -, * and @ between a Normal it has and a constant *)
(* (a raw number or a Dirac it has), in either order, and negation to a    *)
(* Normal it has, so that the result of one call is an operand of the      *)
(* next.                                                                   *)
(***************************************************************************)
ChainNormals ==
    {MkNormal(PyFloat(1, 2), PyInt(1), 0), MkNormal(PyInt(1), PyInt(2), 0),
     MkNormal(PyInt(0), PyFloat(1, 2), 0),
     MkNormal(Full(<<2>>, PyInt(1)), Full(<<2, 2>>, PyInt(1)), 0)}

ChainScalars == {PyInt(1), PyInt(2), PyFloat(1, 2)}

\* a Normal and a Dirac of its shape
ChainPairs ==
    {<<MkNormal(PyInt(1), PyInt(2), 0), MkDirac(PyInt(2), 0)>>,
     <<MkNormal(Full(<<2>>, PyInt(1)), Full(<<2, 2>>, PyInt(1)), 0),
       MkDirac(Full(<<2>>, PyInt(1)), 0)>>}

InitChain ==
    /\ heap \in {<<N>> : N \in ChainNormals} \cup ChainPairs
    /\ rvs = <<>>
    /\ calls = <<>>

\* the objects a caller has a reference to: those it constructed and those
\* a call returned, not the temporaries an operator allocates
Held ==
    {j \in 1..Len(heap) :
        \/ j <= (IF calls = <<>> THEN Len(heap) ELSE Len(calls[1].pre))
        \/ \E k \in 1..Len(calls) : calls[k].ref = j}

ChainStep ==
    /\ Len(calls) < MaxChain
    /\ \E op \in {"add", "sub", "mul", "matmul"}, i \in Held,
          x \in {RawArg(v) : v \in ChainScalars} \cup
                {ObjArg(j) : j \in {k \in Held : heap[k].cls = "Dirac"}},
          swapped \in BOOLEAN :
         LET a == IF swapped THEN x ELSE ObjArg(i)
             b == IF swapped THEN ObjArg(i) ELSE x
         IN  /\ heap[i].cls = "Normal"
             /\ Returns(op, a, b, BinaryOp(heap, op, a, b))

\* -N for a Normal N of the heap
ChainNeg ==
    /\ Len(calls) < MaxChain
    /\ \E i \in Held :
         /\ heap[i].cls = "Normal"
         /\ Returns("neg", ObjArg(i), NoArg, UnaryOp(heap, "neg", i))

NextChain == ChainStep \/ ChainNeg

SpecChain == InitChain /\ [][NextChain]_vars

(***************************************************************************)
(* Constructions: a run starts from the distributions a caller has and     *)
(* constructs random variables over them, RandomVariable(shape, dtype,     *)
(* distribution).                                                          *)
(***************************************************************************)
\* the call RandomVariable(shape, dtype, distribution=i) ends as r says
Constructs(shape, dtype, i, r) ==
    /\ heap' = r.h
    /\ rvs' = r.rvs
    /\ calls' = Append(calls, [Call("new", "init", ObjArg(i), NoArg, r.err, r.ref)
                                 EXCEPT !.shape = shape, !.dtype = dtype])

NewRV ==
    /\ Len(calls) < MaxRVs
    /\ \E shape \in Shapes, dtype \in Dtypes, i \in 1..Len(heap) :
         Constructs(shape, dtype, i, RandomVariable_init(heap, rvs, shape, dtype, i))

NextRV == NewRV

SpecRV == Init /\ [][NextRV]_vars

(***************************************************************************)
(* Arithmetic on random variables: a run starts from two distributions,    *)
(* each the distribution of a random variable constructed with the shape   *)
(* of its mean, and applies operators to the random variables it has, to   *)
(* their distributions and to raw numbers.                                 *)
(***************************************************************************)
RvOperands ==
    << MkDirac(PyInt(2), 0), MkDirac(Full(<<2>>, PyInt(1)), 0),
       MkNormal(PyInt(1), PyInt(2), 0),
       MkNormal(Full(<<2>>, PyInt(1)), Full(<<2, 2>>, PyInt(1)), 0),
       MkGeneric("fn", PyInt(1), "fn", PyInt(1), 0, NoVal, 0) >>

RvScalars == {PyInt(0), PyInt(2)}

\* RandomVariable(shape=d.mean().shape, distribution=d) for the object i of h
WrapOne(h, r, i) == RandomVariable_init(h, r, mean(h, i).v.sh, "None", i).rvs

\* one random variable for each of the two objects of h
WrapTwo(h) == WrapOne(h, WrapOne(h, <<>>, 1), 2)

InitArith ==
    /\ heap \in UNION {{<<RvOperands[i], RvOperands[j]>> : j \in i..Len(RvOperands)} :
                         i \in 1..Len(RvOperands)}
    /\ rvs = WrapTwo(heap)
    /\ calls = <<>>

\* the call `a op b` on random variables ends as r says
RvReturns(op, a, b, r) ==
    /\ r.err # "Unmodelled"
    /\ HeapInBounds(r.h)
    /\ heap' = r.h
    /\ rvs' = r.rvs
    /\ calls' = Append(calls, Call("rv", op, a, b, r.err, r.ref))

RvArgs == {RvArg(i) : i \in 1..Len(rvs)} \cup {RawArg(v) : v \in RvScalars}

\* a op b, one of them at least a RandomVariable
RvBinary ==
    /\ Len(calls) < MaxOps
    /\ \E op \in BinaryOps, a \in RvArgs, b \in RvArgs :
         /\ a.k = "rv" \/ b.k = "rv"
         /\ RvReturns(op, a, b, RvBinaryOp(heap, rvs, op, a, b))

\* -a, +a, abs(a) on a RandomVariable
RvUnary ==
    /\ Len(calls) < MaxOps
    /\ \E op \in {"neg", "pos", "abs"}, i \in 1..Len(rvs) :
         RvReturns(op, RvArg(i), NoArg, RvUnaryOp(heap, rvs, op, i))

NextArith == RvBinary \/ RvUnary \/ DistBinary \/ DistUnary

SpecArith == InitArith /\ [][NextArith]_vars

(***************************************************************************)
(* Augmented assignments on the distributions and the random variables of  *)
(* a run.                                                                  *)
(***************************************************************************)
\* the call `a op= b` on distributions ends as r says
InplaceReturns(op, a, b, r) ==
    /\ r.err # "Unmodelled"
    /\ HeapInBounds(r.h)
    /\ heap' = r.h
    /\ calls' = Append(calls, Call("idist", op, a, b, r.err, r.ref))
    /\ UNCHANGED rvs

\* the call `a op= b` on a random variable ends as r says
RvInplaceReturns(op, a, b, r) ==
    /\ heap' = r.h
    /\ rvs' = r.rvs
    /\ calls' = Append(calls, Call("irv", op, a, b, r.err, r.ref))

\* a op= b on a Distribution object a
DistInplace ==
    /\ Len(calls) < MaxOps
    /\ \E op \in BinaryOps, self \in 1..Len(heap), other \in DistArgs :
         InplaceReturns(op, ObjArg(self), other, InplaceOp(heap, op, self, other))

\* a op= b on a RandomVariable a
RvInplace ==
    /\ Len(calls) < MaxOps
    /\ \E op \in BinaryOps, self \in 1..Len(rvs), other \in RvArgs :
         RvInplaceReturns(op, RvArg(self), other, RvInplaceOp(heap, rvs, op, self, other))

NextInplace == DistInplace \/ RvInplace

SpecInplace == InitArith /\ [][NextInplace]_vars

(***************************************************************************)
(* Coercions: asdistribution and asrandomvariable applied to the objects   *)
(* of a run, to what an earlier coercion returned, and to raw numbers and  *)
(* arrays.                                                                 *)
(***************************************************************************)
CoerceValues == Scalars \cup {Full(<<2>>, PyInt(1))}

\* the call asdistribution(x) ends as r says
Coerces(x, r) ==
    /\ heap' = r.h
    /\ calls' = Append(calls, Call("asdist", "asdistribution", x, NoArg, r.err, r.ref))
    /\ UNCHANGED rvs

\* the call asrandomvariable(x) ends as r says
RvCoerces(x, r) ==
    /\ heap' = r.h
    /\ rvs' = r.rvs
    /\ calls' = Append(calls, Call("asrv", "asrandomvariable", x, NoArg, r.err, r.ref))

AsDistribution ==
    /\ Len(calls) < MaxCoerce
    /\ \E x \in {ObjArg(i) : i \in 1..Len(heap)} \cup {RawArg(v) : v \in CoerceValues} :
         Coerces(x, asdistribution(heap, x))

AsRandomVariable ==
    /\ Len(calls) < MaxCoerce
    /\ \E x \in {RvArg(i) : i \in 1..Len(rvs)} \cup {RawArg(v) : v \in CoerceValues} :
         RvCoerces(x, asrandomvariable(heap, rvs, x))

NextCoerce == AsDistribution \/ AsRandomVariable

SpecCoerce == InitArith /\ [][NextCoerce]_vars

(***************************************************************************)
(* Evaluations: a run starts from one generic Distribution constructed     *)
(* with any combination of pdf, logpdf, cdf and logcdf, and evaluates the  *)
(* four methods at the points 1 and 2.  The functions a caller supplies    *)
(* need not agree with one another.                                        *)
(***************************************************************************)
Points == {1, 2}

\* the functions a caller supplies as pdf or cdf
LinearFns == {<<Pow2(-1), Pow2(-2)>>, <<Pow2(0), Pow2(1)>>}

\* the functions a caller supplies as logpdf or logcdf
LogFns == {<<Ln2(-1), Ln2(-2)>>, <<Ln2(0), Ln2(1)>>}

\* Distribution(pdf=.., logpdf=.., cdf=.., logcdf=..)
InitEval ==
    /\ \E pdf \in LinearFns \cup {None}, logpdf \in LogFns \cup {None},
          cdf \in LinearFns \cup {None}, logcdf \in LogFns \cup {None} :
         heap = << [MkGeneric("none", NoVal, "none", NoVal, 0, NoVal, 0)
                      EXCEPT !.fns = [pdf |-> pdf, logpdf |-> logpdf,
                                      cdf |-> cdf, logcdf |-> logcdf]] >>
    /\ rvs = <<>>
    /\ calls = <<>>

\* the call self.method(x) ends as r says
Evaluates(method, self, x, r) ==
    /\ r.err # "Unmodelled"
    /\ calls' = Append(calls, [Call("eval", method, ObjArg(self), RawArg(PyInt(x)), r.err, 0)
                                 EXCEPT !.val = r.v])
    /\ UNCHANGED <<heap, rvs>>

EvalStep ==
    /\ Len(calls) < MaxEvals
    /\ \E method \in EvalMethods, self \in 1..Len(heap), x \in Points :
         Evaluates(method, self, x, Evaluate(heap, method, self, x))

NextEval == EvalStep

SpecEval == InitEval /\ [][NextEval]_vars

(***************************************************************************)
(* Draws: a run starts from two point masses, each the distribution of a   *)
(* random variable, adds them and draws samples from the point masses and  *)
(* from the random variables.                                              *)
(***************************************************************************)
SampleSupports == {PyFloat(0, 1), PyFloat(1, 1), PyInt(2)}

Sizes == {IntSize(1), IntSize(5), TupleSize(<<>>), TupleSize(<<1>>), TupleSize(<<2>>)}

InitSample ==
    /\ heap \in {<<MkDirac(x, 0), MkDirac(y, 0)>> : x, y \in SampleSupports}
    /\ rvs = WrapTwo(heap)
    /\ calls = <<>>

\* the call a.sample(size) ends as r says
Draws(kind, a, size, r) ==
    /\ r.err # "Unmodelled"
    /\ calls' = Append(calls, [Call(kind, "sample", a, NoArg, r.err, 0)
                                 EXCEPT !.val = r.v, !.size = size])
    /\ UNCHANGED <<heap, rvs>>

\* a + b on the point masses
SampleAdd ==
    /\ Len(calls) < MaxSamples
    /\ \E i, j \in 1..Len(heap) :
         Returns("add", ObjArg(i), ObjArg(j), BinaryOp(heap, "add", ObjArg(i), ObjArg(j)))

\* d.sample(size) on a Distribution object
DistSample ==
    /\ Len(calls) < MaxSamples
    /\ \E i \in 1..Len(heap), size \in Sizes :
         Draws("sample", ObjArg(i), size, Sample(heap, i, size))

\* x.sample(size) on a RandomVariable
RvSample ==
    /\ Len(calls) < MaxSamples
    /\ \E i \in 1..Len(rvs), size \in Sizes :
         Draws("rvsample", RvArg(i), size, RandomVariable_sample(heap, rvs, i, size))

NextSample == SampleAdd \/ DistSample \/ RvSample

SpecSample == InitSample /\ [][NextSample]_vars

(***************************************************************************)
(* Lazy results: a run starts from a generic Distribution or a Normal and  *)
(* a Dirac, each with a generator of its own made from a seed, and applies *)
(* +, * and @, negation and += to the objects the caller holds and to a    *)
(* raw number, so that a Dirac is changed after a result was built from    *)
(* it.                                                                     *)
(***************************************************************************)
\* Distribution(mean=.., var=.., random_state=1), Normal(1, 2, random_state=1)
LazyOperands ==
    {MkGeneric("fn", PyInt(1), "fn", PyInt(1), 0, NoVal, 1),
     MkGeneric("fn", Full(<<2>>, PyInt(1)), "fn", Full(<<2, 2>>, PyInt(1)), 0, NoVal, 1),
     MkNormal(PyInt(1), PyInt(2), 1)}

\* Dirac(support, random_state=2)
LazyDiracs ==
    {MkDirac(PyInt(2), 2), MkDirac(PyFloat(1, 2), 2), MkDirac(Full(<<2, 2>>, PyInt(1)), 2)}

InitLazy ==
    /\ heap \in {<<X, d>> : X \in LazyOperands, d \in LazyDiracs}
    /\ rvs = <<>>
    /\ calls = <<>>

LazyArgs == {ObjArg(i) : i \in Held} \cup {RawArg(PyInt(2))}

\* a op b, one of them at least a Distribution object
LazyBinary ==
    /\ Len(calls) < MaxLazy
    /\ \E op \in {"add", "mul", "matmul"}, a \in LazyArgs, b \in LazyArgs :
         /\ a.k = "obj" \/ b.k = "obj"
         /\ Returns(op, a, b, BinaryOp(heap, op, a, b))

\* -a
LazyNeg ==
    /\ Len(calls) < MaxLazy
    /\ \E i \in Held : Returns("neg", ObjArg(i), NoArg, UnaryOp(heap, "neg", i))

\* a += b
LazyInplace ==
    /\ Len(calls) < MaxLazy
    /\ \E self \in Held, other \in LazyArgs :
         InplaceReturns("add", ObjArg(self), other, InplaceOp(heap, "add", self, other))

NextLazy == LazyBinary \/ LazyNeg \/ LazyInplace

SpecLazy == InitLazy /\ [][NextLazy]_vars

(***************************************************************************)
(* How the claims read a call: its operands as they were before the call.  *)
(***************************************************************************)
IsDiracObj(c, x) == x.k = "obj" /\ c.pre[x.id].cls = "Dirac"

IsNormalObj(c, x) == x.k = "obj" /\ c.pre[x.id].cls = "Normal"

IsGenericObj(c, x) == x.k = "obj" /\ c.pre[x.id].cls = "Distribution"

\* a constant operand: a Dirac object or a raw number
IsPoint(c, x) == x.k = "raw" \/ IsDiracObj(c, x)

\* the constant of a constant operand
PointOf(c, x) == IF x.k = "raw" THEN x.v ELSE c.pre[x.id].support

IsScalarPoint(c, x) == IsPoint(c, x) /\ isscalar(PointOf(c, x))

\* a Normal object with scalar parameters
IsScalarNormal(c, x) == IsNormalObj(c, x) /\ isscalar(c.pre[x.id].mean)

\* r is x + y, x - y, x * y, x / y as rational numbers
IsSum(r, x, y) == r.n * x.d * y.d = (x.n * y.d + y.n * x.d) * r.d

IsDifference(r, x, y) == r.n * x.d * y.d = (x.n * y.d - y.n * x.d) * r.d

IsProduct(r, x, y) == r.n * x.d * y.d = x.n * y.n * r.d

IsQuotient(r, x, y) == y.n # 0 /\ r.n * x.d * y.n = x.n * y.d * r.d

\* the call returned a Normal with mean m and cov v such that P(m, v)
ReturnedNormal(c, P(_, _)) ==
    /\ c.err = "none"
    /\ heap[c.ref].cls = "Normal"
    /\ P(heap[c.ref].mean, heap[c.ref].cov)

(***************************************************************************)
(* C1.  For all scalars a and b, Dirac(a) + Dirac(b) has mean a + b and    *)
(* variance 0, and Dirac(a) * Dirac(b) has mean a * b.                     *)
(***************************************************************************)
Thm_C1 ==
    LET c == last
        x == PointOf(c, c.a)
        y == PointOf(c, c.b)
    IN  (/\ c.kind = "dist" /\ c.op \in {"add", "mul"}
         /\ IsDiracObj(c, c.a) /\ IsDiracObj(c, c.b)
         /\ isscalar(x) /\ isscalar(y))
        => /\ c.err = "none"
           /\ mean(heap, c.ref).err = "none"
           /\ isscalar(mean(heap, c.ref).v)
           /\ c.op = "add" => /\ IsSum(mean(heap, c.ref).v, x, y)
                              /\ var(heap, c.ref) = Ok(PyFloat(0, 1))
           /\ c.op = "mul" => IsProduct(mean(heap, c.ref).v, x, y)

\* Dirac(2) + Dirac(0.5), two objects, has been evaluated and has mean 2.5
Wit_C1 ==
    /\ last.kind = "dist" /\ last.op = "add"
    /\ IsDiracObj(last, last.a) /\ IsDiracObj(last, last.b)
    /\ last.a.id # last.b.id
    /\ PointOf(last, last.a) = PyInt(2) /\ PointOf(last, last.b) = PyFloat(1, 2)
    /\ last.err = "none"
    /\ mean(heap, last.ref) = Ok(PyFloat(5, 2))

(***************************************************************************)
(* C2.  For all scalars d, m and v > 0, Normal(m, v) + Dirac(d) is a       *)
(* Normal whose mean() is m + d and whose parameters["cov"] is v, and so   *)
(* is Dirac(d) + Normal(m, v).                                             *)
(***************************************************************************)
Thm_C2 ==
    LET c == last
    IN  /\ (c.kind = "dist" /\ c.op = "add"
              /\ IsScalarNormal(c, c.a) /\ IsDiracObj(c, c.b) /\ IsScalarPoint(c, c.b))
           => ReturnedNormal(c, LAMBDA m, v :
                  /\ mean(heap, c.ref) = Ok(m)
                  /\ isscalar(m) /\ IsSum(m, c.pre[c.a.id].mean, PointOf(c, c.b))
                  /\ NumEq(v, c.pre[c.a.id].cov))
        /\ (c.kind = "dist" /\ c.op = "add"
              /\ IsScalarNormal(c, c.b) /\ IsDiracObj(c, c.a) /\ IsScalarPoint(c, c.a))
           => ReturnedNormal(c, LAMBDA m, v :
                  /\ mean(heap, c.ref) = Ok(m)
                  /\ isscalar(m) /\ IsSum(m, c.pre[c.b.id].mean, PointOf(c, c.a))
                  /\ NumEq(v, c.pre[c.b.id].cov))

\* Dirac(2) + Normal(1, 2) has been evaluated and is Normal(3, 2)
Wit_C2 ==
    /\ last.kind = "dist" /\ last.op = "add"
    /\ IsDiracObj(last, last.a) /\ PointOf(last, last.a) = PyInt(2)
    /\ IsNormalObj(last, last.b)
    /\ last.pre[last.b.id].mean = PyInt(1) /\ last.pre[last.b.id].cov = PyInt(2)
    /\ last.err = "none"
    /\ heap[last.ref].cls = "Normal"
    /\ heap[last.ref].mean = PyInt(3) /\ heap[last.ref].cov = PyInt(2)

(***************************************************************************)
(* C3.  For all scalars d, m and v > 0: if d != 0 then                     *)
(* (d * Normal(m, v)).parameters is {mean: m * d, cov: v * d^2}; if d == 0 *)
(* the result is not a Normal but a Dirac with support 0.                  *)
(***************************************************************************)
Thm_C3 ==
    LET c == last
        d == PointOf(c, c.a)
        N == c.pre[c.b.id]
    IN  (/\ c.kind = "dist" /\ c.op = "mul"
         /\ IsScalarPoint(c, c.a) /\ IsScalarNormal(c, c.b))
        => /\ c.err = "none"
           /\ d.n # 0 => /\ heap[c.ref].cls = "Normal"
                         /\ isscalar(heap[c.ref].mean) /\ isscalar(heap[c.ref].cov)
                         /\ IsProduct(heap[c.ref].mean, N.mean, d)
                         /\ IsProduct(heap[c.ref].cov, N.cov, VSquare(d))
           /\ d.n = 0 => /\ heap[c.ref].cls = "Dirac"
                         /\ isscalar(heap[c.ref].support)
                         /\ heap[c.ref].support.n = 0

\* 2 * Normal(1, 2), the 2 a raw number, has been evaluated and is Normal(2, 8)
Wit_C3 ==
    /\ last.kind = "dist" /\ last.op = "mul"
    /\ last.a = RawArg(PyInt(2))
    /\ IsNormalObj(last, last.b)
    /\ last.pre[last.b.id].mean = PyInt(1) /\ last.pre[last.b.id].cov = PyInt(2)
    /\ last.err = "none"
    /\ heap[last.ref].cls = "Normal"
    /\ heap[last.ref].mean = PyInt(2) /\ heap[last.ref].cov = PyInt(8)

(***************************************************************************)
(* C5.  For any distribution D and a Dirac (or raw number) that is exactly *)
(* zero, D * Dirac(0) and Dirac(0) * D evaluate to a Dirac whose support   *)
(* is the zero element 0 * D.mean(); for a generic D that provides no mean *)
(* the multiplication raises NotImplementedError.                          *)
(***************************************************************************)
ZeroTimes(c, z, D) ==
    LET m == mean(c.pre, D.id)
    IN  (/\ c.kind = "dist" /\ c.op = "mul"
         /\ D.k = "obj"
         /\ IsScalarPoint(c, z) /\ PointOf(c, z) = PyInt(0))
        => IF m.err = "none"
           THEN /\ c.err = "none"
                /\ heap[c.ref].cls = "Dirac"
                /\ heap[c.ref].support.sh = m.v.sh
                /\ heap[c.ref].support.n = 0
           ELSE /\ IsGenericObj(c, D)
                /\ c.err = "NotImplementedError"

Thm_C5 == ZeroTimes(last, last.a, last.b) /\ ZeroTimes(last, last.b, last.a)

\* Dirac(0) * Normal([1, 1], ones(2, 2)) has been evaluated: Dirac at [0, 0]
Wit_C5 ==
    /\ last.kind = "dist" /\ last.op = "mul"
    /\ IsDiracObj(last, last.a) /\ PointOf(last, last.a) = PyInt(0)
    /\ IsNormalObj(last, last.b) /\ last.pre[last.b.id].mean.sh = <<2>>
    /\ last.err = "none"
    /\ heap[last.ref].cls = "Dirac"
    /\ heap[last.ref].support = Full(<<2>>, PyInt(0))

(***************************************************************************)
(* C6.  Normal(0, 1) * Normal(0, 1) and Normal(0, 1) ** 2 raise            *)
(* NotImplementedError; more generally Normal op X raises                  *)
(* NotImplementedError for every distribution X that is not a Dirac and    *)
(* every op among + - * @.                                                 *)
(***************************************************************************)
Thm_C6 ==
    LET c == last
    IN  /\ (/\ c.kind = "dist" /\ c.op \in {"add", "sub", "mul", "matmul"}
            /\ IsNormalObj(c, c.a)
            /\ c.b.k = "obj" /\ ~IsDiracObj(c, c.b))
           => c.err = "NotImplementedError"
        /\ (c.kind = "dist" /\ c.op = "pow" /\ IsNormalObj(c, c.a))
           => c.err = "NotImplementedError"

\* Normal(1, 2) * Normal(0.5, 1) has been tried and raised
Wit_C6 ==
    /\ last.kind = "dist" /\ last.op = "mul"
    /\ IsNormalObj(last, last.a) /\ IsNormalObj(last, last.b)
    /\ last.a.id # last.b.id
    /\ last.err = "NotImplementedError"
    /\ heap = last.pre

(***************************************************************************)
(* C7.  For every pair of distributions of which at least one is not a     *)
(* Dirac, a ** b raises NotImplementedError, in every operand order:       *)
(* Normal ** Dirac, generic ** Dirac, Dirac ** Normal, Dirac ** generic.   *)
(***************************************************************************)
Claim_C7 ==
    LET c == last
    IN  (/\ c.kind = "dist" /\ c.op = "pow"
         /\ c.a.k = "obj" /\ c.b.k = "obj"
         /\ ~(IsDiracObj(c, c.a) /\ IsDiracObj(c, c.b)))
        => c.err = "NotImplementedError"

(***************************************************************************)
(* C8.  For all scalars m, v > 0 and d != 0, Normal(m, v) / d is           *)
(* Normal(m / d, v / d^2), for d a raw number or a Dirac(d).               *)
(***************************************************************************)
Claim_C8 ==
    LET c == last
        d == PointOf(c, c.b)
        N == c.pre[c.a.id]
    IN  (/\ c.kind = "dist" /\ c.op = "truediv"
         /\ IsScalarNormal(c, c.a)
         /\ IsScalarPoint(c, c.b) /\ d.n # 0)
        => ReturnedNormal(c, LAMBDA m, v :
               /\ isscalar(m) /\ IsQuotient(m, N.mean, d)
               /\ isscalar(v) /\ IsQuotient(v, N.cov, VSquare(d)))

(***************************************************************************)
(* C9.  Dividing a generic Distribution or a Normal by an exact-zero point *)
(* mass raises ZeroDivisionError, whether the divisor is the raw number 0  *)
(* or a Dirac(0) instance.                                                 *)
(***************************************************************************)
Claim_C9 ==
    LET c == last
    IN  (/\ c.kind = "dist" /\ c.op = "truediv"
         /\ (IsNormalObj(c, c.a) \/ IsGenericObj(c, c.a))
         /\ IsScalarPoint(c, c.b) /\ PointOf(c, c.b).n = 0)
        => c.err = "ZeroDivisionError"

(***************************************************************************)
(* C4.  For a scalar N = Normal(m, v) and scalars a != 0 and b, a * N - b  *)
(* (reflected multiplication, then subtraction of a constant) is a Normal  *)
(* with parameters {mean: a * m - b, cov: a^2 * v}, and N still has        *)
(* parameters {mean: m, cov: v} afterwards.  Normal(0.5, 1) gives          *)
(* {mean: 0.0, cov: 4} for 2 * N - 1.                                      *)
(***************************************************************************)
\* the heap after the i-th call
PostHeap(i) == IF i = Len(calls) THEN heap ELSE calls[i + 1].pre

\* calls[i] is a * N and calls[i + 1] is (a * N) - b
IsAffineChain(i) ==
    LET c1 == calls[i]
        c2 == calls[i + 1]
    IN  /\ c1.kind = "dist" /\ c1.op = "mul"
        /\ c1.a.k = "raw" /\ isscalar(c1.a.v) /\ c1.a.v.n # 0
        /\ IsScalarNormal(c1, c1.b)
        /\ c2.kind = "dist" /\ c2.op = "sub"
        /\ c2.a = ObjArg(c1.ref)
        /\ c2.b.k = "raw" /\ isscalar(c2.b.v)

Thm_C4 ==
    \A i \in 1..(Len(calls) - 1) :
        LET c1 == calls[i]
            c2 == calls[i + 1]
            h == PostHeap(i + 1)
            N == c1.pre[c1.b.id]
            a == c1.a.v
            b == c2.b.v
        IN  IsAffineChain(i)
            => /\ c2.err = "none"
               /\ h[c2.ref].cls = "Normal"
               /\ isscalar(h[c2.ref].mean) /\ isscalar(h[c2.ref].cov)
               /\ h[c2.ref].mean.n * a.d * N.mean.d * b.d
                    = (a.n * N.mean.n * b.d - b.n * a.d * N.mean.d) * h[c2.ref].mean.d
               /\ h[c2.ref].cov.n * a.d * a.d * N.cov.d
                    = a.n * a.n * N.cov.n * h[c2.ref].cov.d
               /\ (N.mean = PyFloat(1, 2) /\ N.cov = PyInt(1) /\ a = PyInt(2) /\ b = PyInt(1))
                  => h[c2.ref].mean = PyFloat(0, 1) /\ h[c2.ref].cov = PyInt(4)
               /\ h[c1.b.id] = N

\* N = Normal(0.5, 1), 2 * N and then (2 * N) - 1 have been evaluated
Wit_C4 ==
    /\ Len(calls) = 2
    /\ IsAffineChain(1)
    /\ calls[1].pre[calls[1].b.id].mean = PyFloat(1, 2)
    /\ calls[1].pre[calls[1].b.id].cov = PyInt(1)
    /\ calls[1].a.v = PyInt(2) /\ calls[2].b.v = PyInt(1)
    /\ calls[2].err = "none"
    /\ heap[calls[2].ref].mean = PyFloat(0, 1) /\ heap[calls[2].ref].cov = PyInt(4)
    /\ heap[calls[1].b.id].mean = PyFloat(1, 2)

(***************************************************************************)
(* C10.  RandomVariable(shape=s, distribution=d), where d.mean() has shape *)
(* s' (() for a scalar mean), fails with a shape-mismatch error if         *)
(* s != s'; otherwise it succeeds, the stored shape is s' and the dtype is *)
(* the mean's, whatever dtype the caller supplied.                         *)
(***************************************************************************)
Thm_C10 ==
    LET c == last
        m == mean(c.pre, c.a.id)
    IN  (c.kind = "new" /\ m.err = "none")
        => IF c.shape # m.v.sh
           THEN /\ c.err = "ValueError"
                /\ rvs = c.prervs
           ELSE /\ c.err = "none"
                /\ rvs[c.ref].shape = m.v.sh
                /\ rvs[c.ref].dtype = (IF m.v.t = "int" THEN "int64" ELSE "float64")
                /\ rvs[c.ref].distribution = c.a.id

\* RandomVariable(shape=(), dtype=int64, distribution=Dirac(0.5)) has been
\* constructed and its dtype is float64
Wit_C10 ==
    /\ last.kind = "new" /\ last.shape = <<>> /\ last.dtype = "int64"
    /\ IsDiracObj(last, last.a) /\ PointOf(last, last.a) = PyFloat(1, 2)
    /\ last.err = "none"
    /\ rvs[last.ref].shape = <<>> /\ rvs[last.ref].dtype = "float64"

(***************************************************************************)
(* C11.  For two Dirac random variables x and y whose supports broadcast,  *)
(* and op among + - *, x op y returns a RandomVariable whose shape is the  *)
(* shape of the result distribution's mean, also when that shape is not    *)
(* ().                                                                     *)
(***************************************************************************)
\* the distribution of the random variable an operand of the call c names
DistOf(c, x) == c.pre[c.prervs[x.id].distribution]

Claim_C11 ==
    LET c == last
        x == DistOf(c, c.a).support
        y == DistOf(c, c.b).support
    IN  (/\ c.kind = "rv" /\ c.op \in {"add", "sub", "mul"}
         /\ c.a.k = "rv" /\ c.b.k = "rv"
         /\ DistOf(c, c.a).cls = "Dirac" /\ DistOf(c, c.b).cls = "Dirac"
         /\ BroadcastOk(x.sh, y.sh))
        => /\ c.err = "none"
           /\ rvs[c.ref].shape = BroadcastShape(x.sh, y.sh)
           /\ rvs[c.ref].shape = mean(heap, rvs[c.ref].distribution).v.sh

(***************************************************************************)
(* C13.  After any sequence of RandomVariable arithmetic no Distribution   *)
(* object is the distribution of two distinct RandomVariable objects; the  *)
(* RandomVariable x + y returns shares its distribution with neither x nor *)
(* y.                                                                      *)
(***************************************************************************)
Claim_C13 ==
    \A i, j \in 1..Len(rvs) : i # j => rvs[i].distribution # rvs[j].distribution

(***************************************************************************)
(* C12.  Every in-place operator on a RandomVariable, on a generic         *)
(* Distribution and on a Normal raises NotImplementedError whatever the    *)
(* right-hand operand, and leaves every object as it was: the left         *)
(* operand's shape, dtype, distribution and parameters are unchanged.      *)
(***************************************************************************)
\* the random variables after the i-th call
PostRvs(i) == IF i = Len(calls) THEN rvs ELSE calls[i + 1].prervs

\* calls[i] is an augmented assignment to a RandomVariable, a generic
\* Distribution or a Normal
IsUnsupportedInplace(i) ==
    \/ calls[i].kind = "irv"
    \/ /\ calls[i].kind = "idist"
       /\ calls[i].pre[calls[i].a.id].cls \in {"Distribution", "Normal"}

Thm_C12 ==
    \A i \in 1..Len(calls) :
        IsUnsupportedInplace(i) =>
            /\ calls[i].err = "NotImplementedError"
            /\ PostRvs(i) = calls[i].prervs
            /\ \A k \in 1..Len(calls[i].pre) : PostHeap(i)[k] = calls[i].pre[k]

Wit_C12 ==
    /\ last.kind = "idist" /\ last.op = "add"
    /\ last.pre[last.a.id].cls = "Normal"
    /\ last.b.k = "obj" /\ last.pre[last.b.id].cls = "Dirac"
    /\ last.err = "NotImplementedError"
    /\ heap[last.a.id] = last.pre[last.a.id]

(***************************************************************************)
(* C14.  Negating a Normal(m, v) returns a Normal with mean -m and         *)
(* covariance v and leaves the original's parameters alone; negating the   *)
(* result again returns a Normal with the mean and the covariance of the   *)
(* original, which is still unchanged.                                     *)
(***************************************************************************)
\* calls[i] is -N for a Normal N
IsNormalNeg(i) ==
    /\ calls[i].kind = "dist" /\ calls[i].op = "neg"
    /\ calls[i].pre[calls[i].a.id].cls = "Normal"

\* calls[i] returned a Normal other than n, with mean m and covariance v,
\* and left the object n as it was before the call
NegatedTo(i, n, m, v) ==
    /\ calls[i].err = "none"
    /\ calls[i].ref # n
    /\ PostHeap(i)[calls[i].ref].cls = "Normal"
    /\ PostHeap(i)[calls[i].ref].mean = m
    /\ PostHeap(i)[calls[i].ref].cov = v
    /\ PostHeap(i)[n] = calls[i].pre[n]

\* calls[i] is -N and calls[i + 1] negates what calls[i] returned
IsDoubleNeg(i) ==
    /\ i < Len(calls)
    /\ IsNormalNeg(i)
    /\ calls[i + 1].kind = "dist" /\ calls[i + 1].op = "neg"
    /\ calls[i + 1].a = ObjArg(calls[i].ref)

Thm_C14 ==
    \A i \in 1..Len(calls) :
        LET n == calls[i].a.id
            N == calls[i].pre[n]
        IN  /\ IsNormalNeg(i) => NegatedTo(i, n, VNeg(N.mean), N.cov)
            /\ IsDoubleNeg(i) =>
                 /\ NegatedTo(i + 1, calls[i].ref, N.mean, N.cov)
                 /\ PostHeap(i + 1)[n] = N

Wit_C14 ==
    /\ Len(calls) = 2
    /\ IsDoubleNeg(1)
    /\ calls[1].pre[1].mean = PyFloat(1, 2)
    /\ heap[2].mean = PyFloat(-1, 2)
    /\ heap[3].mean = PyFloat(1, 2) /\ heap[3].cov = PyInt(1)
    /\ heap[1] = calls[1].pre[1]

(***************************************************************************)
(* C15.  asdistribution returns the very object it is given, unchanged,    *)
(* when that is a Distribution (generic, Dirac or Normal), and wraps a     *)
(* plain scalar x as a new Dirac with support x; hence                     *)
(* asdistribution(asdistribution(x)) is asdistribution(x).                 *)
(* asrandomvariable returns the very object it is given when that is a     *)
(* RandomVariable.                                                         *)
(***************************************************************************)
\* calls[i] and calls[i + 1] are asdistribution(asdistribution(x))
IsCoercedTwice(i) ==
    /\ i < Len(calls)
    /\ calls[i].kind = "asdist" /\ calls[i + 1].kind = "asdist"
    /\ calls[i + 1].a = ObjArg(calls[i].ref)

\* the i-th call left every object and random variable it found as it was
KeptAll(i) ==
    /\ PostRvs(i) = calls[i].prervs
    /\ \A k \in 1..Len(calls[i].pre) : PostHeap(i)[k] = calls[i].pre[k]

Thm_C15 ==
    \A i \in 1..Len(calls) :
        LET c == calls[i]
        IN  /\ (c.kind = "asdist" /\ c.a.k = "obj") =>
                 c.err = "none" /\ c.ref = c.a.id /\ PostHeap(i) = c.pre /\ KeptAll(i)
            /\ (c.kind = "asdist" /\ c.a.k = "raw" /\ isscalar(c.a.v)) =>
                 /\ c.err = "none" /\ c.ref = Len(c.pre) + 1 /\ KeptAll(i)
                 /\ PostHeap(i)[c.ref].cls = "Dirac"
                 /\ PostHeap(i)[c.ref].support = c.a.v
            /\ (c.kind = "asrv" /\ c.a.k = "rv") =>
                 c.err = "none" /\ c.ref = c.a.id /\ PostHeap(i) = c.pre /\ KeptAll(i)
            /\ IsCoercedTwice(i) =>
                 calls[i + 1].ref = c.ref /\ PostHeap(i + 1) = PostHeap(i)

Wit_C15 ==
    /\ Len(calls) = 2
    /\ IsCoercedTwice(1)
    /\ calls[1].a = RawArg(PyInt(2))
    /\ calls[2].ref = calls[1].ref
    /\ heap[calls[2].ref].cls = "Dirac"
    /\ heap[calls[2].ref].support = PyInt(2)

(***************************************************************************)
(* C16.  For a Distribution without pdf and with logpdf, pdf(x) is exp of  *)
(* logpdf(x); without cdf and with logcdf, cdf(x) is exp of logcdf(x);     *)
(* without logcdf and with cdf, logcdf(x) is log of cdf(x).  When the      *)
(* method's own function is present, its value is returned whatever the    *)
(* counterpart is.                                                         *)
(***************************************************************************)
\* the functions of the object the call c evaluates, and the point
FnsOf(c) == c.pre[c.a.id].fns

EvalPoint(c) == c.b.v.n

\* p = exp(l) for a float p and a logarithm l = k * ln 2: p * 2^(-k) = 1
IsExpOf(p, l) ==
    LET k == IF l.t = "ln2" THEN l.n ELSE 0
    IN  /\ p.t = "float" /\ p.sh = <<>>
        /\ l.t = "ln2" \/ l.n = 0
        /\ IF k >= 0 THEN p.n = IntPow(2, k) * p.d ELSE p.n * IntPow(2, -k) = p.d

\* the call c returned the value own(x) of the method's own function
ReturnsOwn(c, own) == c.err = "none" /\ c.val = own[EvalPoint(c)]

Thm_C16 ==
    \A i \in 1..Len(calls) :
        LET c == calls[i]
            f == FnsOf(c)
            x == EvalPoint(c)
        IN  c.kind = "eval" =>
            /\ (c.op = "pdf" /\ f.pdf # None) => ReturnsOwn(c, f.pdf)
            /\ (c.op = "cdf" /\ f.cdf # None) => ReturnsOwn(c, f.cdf)
            /\ (c.op = "logcdf" /\ f.logcdf # None) => ReturnsOwn(c, f.logcdf)
            /\ (c.op = "pdf" /\ f.pdf = None /\ f.logpdf # None) =>
                 c.err = "none" /\ IsExpOf(c.val, f.logpdf[x])
            /\ (c.op = "cdf" /\ f.cdf = None /\ f.logcdf # None) =>
                 c.err = "none" /\ IsExpOf(c.val, f.logcdf[x])
            /\ (c.op = "logcdf" /\ f.logcdf = None /\ f.cdf # None) =>
                 c.err = "none" /\ IsExpOf(f.cdf[x], c.val)

Wit_C16 ==
    /\ last.kind = "eval" /\ last.op = "pdf"
    /\ FnsOf(last) = [NoFns EXCEPT !.logpdf = <<Ln2(-1), Ln2(-2)>>]
    /\ EvalPoint(last) = 2
    /\ last.err = "none"
    /\ last.val = PyFloat(1, 4)

(***************************************************************************)
(* C17.  Each of pdf, logpdf, cdf and logcdf of a generic Distribution     *)
(* calls its own function if that was supplied; else derives the value     *)
(* from its counterpart if that was supplied (logpdf(x) = log(pdf(x)) when *)
(* only pdf was supplied); else raises NotImplementedError.  No other      *)
(* error arises for any combination of supplied functions.                 *)
(***************************************************************************)
\* the counterpart of an evaluation method
Counterpart(m) ==
    CASE m = "pdf" -> "logpdf" [] m = "logpdf" -> "pdf"
      [] m = "cdf" -> "logcdf" [] m = "logcdf" -> "cdf"

Claim_C17 ==
    \A i \in 1..Len(calls) :
        LET c == calls[i]
            own == FnsOf(c)[c.op]
            other == FnsOf(c)[Counterpart(c.op)]
            x == EvalPoint(c)
        IN  c.kind = "eval" =>
            IF own # None THEN ReturnsOwn(c, own)
            ELSE IF other # None
            THEN /\ c.err = "none"
                 /\ IF c.op \in {"pdf", "cdf"} THEN IsExpOf(c.val, other[x])
                    ELSE IsExpOf(other[x], c.val)
            ELSE c.err = "NotImplementedError"

(***************************************************************************)
(* C18.  Dirac(0.) + Dirac(1.) sampled at any size, size 1, size 5 and the *)
(* empty size () included, returns a container of that size whose entries  *)
(* all equal 1.0.                                                          *)
(***************************************************************************)
\* calls[i] is Dirac(0.) + Dirac(1.) on two objects
IsZeroPlusOne(i) ==
    LET c == calls[i]
    IN  /\ c.kind = "dist" /\ c.op = "add" /\ c.a.id # c.b.id
        /\ c.pre[c.a.id].support = PyFloat(0, 1)
        /\ c.pre[c.b.id].support = PyFloat(1, 1)

\* calls[i] draws from the object d, itself or through a random variable
DrawsFrom(i, d) ==
    \/ calls[i].kind = "sample" /\ calls[i].a.id = d
    \/ calls[i].kind = "rvsample" /\ calls[i].prervs[calls[i].a.id].distribution = d

Claim_C18 ==
    \A i \in 1..Len(calls) - 1 :
        (IsZeroPlusOne(i) /\ DrawsFrom(i + 1, calls[i].ref)) =>
            /\ calls[i + 1].err = "none"
            /\ calls[i + 1].val = Full(calls[i + 1].size.sh, PyFloat(1, 1))

(***************************************************************************)
(* C19.  For each of + - * @ / ** and two distinct Dirac objects a and b,  *)
(* a op b returns the very object a, sets a's support to op(old support of *)
(* a, support of b) and leaves b as it was.  Where the operation on the    *)
(* supports is not defined (division by zero, a negative power of zero, @  *)
(* with a scalar) the call raises and changes nothing.                     *)
(***************************************************************************)
\* r is x ** y for an exponent y that is an integer
IsPower(r, x, y) ==
    /\ y.d = 1
    /\ IF y.n >= 0 THEN r.n * IntPow(x.d, y.n) = IntPow(x.n, y.n) * r.d
       ELSE x.n # 0 /\ r.n * IntPow(x.n, -y.n) = IntPow(x.d, -y.n) * r.d

\* r is x @ y for vectors x and y of equal entries
IsDot(r, x, y) == r.sh = <<>> /\ r.n * x.d * y.d = x.sh[1] * x.n * y.n * r.d

\* op(x, y) is defined on the numbers and arrays x and y
IsDefinedOn(op, x, y) ==
    IF op = "matmul" THEN Len(x.sh) = 1 /\ Len(y.sh) = 1 /\ x.sh = y.sh
    ELSE /\ BroadcastOk(x.sh, y.sh)
         /\ op = "truediv" => y.n # 0
         /\ op = "pow" => ~(x.n = 0 /\ y.n < 0)

\* r is op(x, y)
IsResultOf(op, r, x, y) ==
    CASE op = "add" -> r.sh = BroadcastShape(x.sh, y.sh) /\ IsSum(r, x, y)
      [] op = "sub" -> r.sh = BroadcastShape(x.sh, y.sh) /\ IsDifference(r, x, y)
      [] op = "mul" -> r.sh = BroadcastShape(x.sh, y.sh) /\ IsProduct(r, x, y)
      [] op = "truediv" -> r.sh = BroadcastShape(x.sh, y.sh) /\ IsQuotient(r, x, y)
      [] op = "pow" -> r.sh = BroadcastShape(x.sh, y.sh) /\ IsPower(r, x, y)
      [] op = "matmul" -> IsDot(r, x, y)

\* the last call is a op b on two distinct Dirac objects
IsDiracPair(c) ==
    /\ c.kind = "dist" /\ c.op \in BinaryOps
    /\ IsDiracObj(c, c.a) /\ IsDiracObj(c, c.b)
    /\ c.a.id # c.b.id

IsNormalWithPoint(i) ==
    LET c == calls[i]
    IN  /\ c.kind = "dist" /\ c.op \in {"add", "sub", "mul", "matmul"}
        /\ \/ IsNormalObj(c, c.a) /\ IsPoint(c, c.b)
           \/ IsPoint(c, c.a) /\ IsNormalObj(c, c.b)

\* every Normal there was before calls[i] is the same after it
NormalsKept(i) ==
    \A k \in 1..Len(calls[i].pre) :
        calls[i].pre[k].cls = "Normal" => PostHeap(i)[k] = calls[i].pre[k]

Thm_C20 ==
    \A i \in 1..Len(calls) :
        IsNormalWithPoint(i) =>
            /\ calls[i].err = "none" => calls[i].ref > Len(calls[i].pre)
            /\ NormalsKept(i)
            /\ calls[1].pre[1].cls = "Normal" /\ heap[1] = calls[1].pre[1]

\* Normal([1, 1], ones((2, 2))) @ Dirac([1, 1]) returned the new Normal(2, 4),
\* which was then multiplied by 2; the first Normal is as it was
Wit_C20 ==
    /\ Len(calls) = 2
    /\ IsNormalWithPoint(1) /\ calls[1].op = "matmul"
    /\ calls[1].a = ObjArg(1) /\ calls[1].b = ObjArg(2)
    /\ calls[1].err = "none" /\ calls[1].ref = 3
    /\ heap[3].mean = PyInt(2) /\ heap[3].cov = PyInt(4)
    /\ IsNormalWithPoint(2) /\ calls[2].op = "mul"
    /\ calls[2].a = ObjArg(3) /\ calls[2].b = RawArg(PyInt(2))
    /\ calls[2].err = "none"
    /\ heap[calls[2].ref].mean = PyInt(4)
    /\ heap[1].mean = Full(<<2>>, PyInt(1)) /\ heap[1].cov = Full(<<2, 2>>, PyInt(1))

(***************************************************************************)
(* C21.  For scalars d, m and v, Normal(m, v) - Dirac(d) is                *)
(* Normal(m - d, v) and Dirac(d) - Normal(m, v) is Normal(d - m, v); with  *)
(* the constant on the left, as a Dirac, as a raw number, and through      *)
(* RandomVariable.__rsub__, the mean is d - m, never m - d.                *)
(***************************************************************************)
\* the distribution an operand of the call c stands for, as it was before
\* the call: a raw number stands for the Dirac it is coerced to
OperandOf(c, x) ==
    IF x.k = "rv" THEN DistOf(c, x)
    ELSE IF x.k = "obj" THEN c.pre[x.id]
    ELSE MkDirac(x.v, 0)

\* the distribution the i-th call returned
ResultOf(i) ==
    IF calls[i].kind = "rv" THEN PostHeap(i)[PostRvs(i)[calls[i].ref].distribution]
    ELSE PostHeap(i)[calls[i].ref]

\* calls[i] is x - y on distributions or on random variables, one of x and y
\* a scalar Normal and the other a scalar constant
IsNormalPointSub(i, n, p) ==
    /\ calls[i].kind \in {"dist", "rv"} /\ calls[i].op = "sub"
    /\ n.cls = "Normal" /\ isscalar(n.mean) /\ isscalar(n.cov)
    /\ p.cls = "Dirac" /\ isscalar(p.support)

\* calls[i] returned Normal(x - y, v)
ReturnedDifference(i, x, y, v) ==
    /\ calls[i].err = "none"
    /\ ResultOf(i).cls = "Normal"
    /\ IsDifference(ResultOf(i).mean, x, y)
    /\ NumEq(ResultOf(i).cov, v)

Thm_C21 ==
    \A i \in 1..Len(calls) :
        LET x == OperandOf(calls[i], calls[i].a)
            y == OperandOf(calls[i], calls[i].b)
        IN  /\ IsNormalPointSub(i, x, y) => ReturnedDifference(i, x.mean, y.support, x.cov)
            /\ IsNormalPointSub(i, y, x) => ReturnedDifference(i, x.support, y.mean, y.cov)

\* 2 - x for the random variable x of Normal(1, 2) returned the random
\* variable of Normal(1, 2)
Wit_C21 ==
    /\ last.kind = "rv" /\ last.op = "sub"
    /\ last.a = RawArg(PyInt(2)) /\ last.b.k = "rv"
    /\ OperandOf(last, last.b).cls = "Normal"
    /\ OperandOf(last, last.b).mean = PyInt(1)
    /\ last.err = "none"
    /\ heap[rvs[last.ref].distribution].cls = "Normal"
    /\ heap[rvs[last.ref].distribution].mean = PyInt(1)
    /\ heap[rvs[last.ref].distribution].cov = PyInt(2)

(***************************************************************************)
(* C22.  After any sequence of binary, reflected and unary operators on    *)
(* RandomVariables, every RandomVariable that existed before an operation  *)
(* reports the same mean(), shape and dtype after it as before it.         *)
(***************************************************************************)
Claim_C22 ==
    \A i \in 1..Len(calls) :
        calls[i].kind = "rv" =>
            \A j \in 1..Len(calls[i].prervs) :
                /\ PostRvs(i)[j] = calls[i].prervs[j]
                /\ mean(PostHeap(i), PostRvs(i)[j].distribution) =
                     mean(calls[i].pre, calls[i].prervs[j].distribution)

(***************************************************************************)
(* C25.  A subtraction or a division with a Normal or a generic            *)
(* Distribution on the left and an existing Dirac d on the right, on       *)
(* distributions or on random variables, leaves d's support as it was      *)
(* before the operation.                                                   *)
(***************************************************************************)
\* the heap object an object or random variable operand of the call c names
ObjectOf(c, x) == IF x.k = "rv" THEN c.prervs[x.id].distribution ELSE x.id

Claim_C25 ==
    \A i \in 1..Len(calls) :
        LET c == calls[i]
        IN  (/\ c.kind \in {"dist", "rv"} /\ c.op \in {"sub", "truediv"}
             /\ c.a.k # "raw" /\ c.b.k # "raw"
             /\ OperandOf(c, c.a).cls \in {"Normal", "Distribution"}
             /\ OperandOf(c, c.b).cls = "Dirac")
            => PostHeap(i)[ObjectOf(c, c.b)].support = OperandOf(c, c.b).support

(***************************************************************************)
(* C27.  Whenever a binary operator on RandomVariables or Distributions    *)
(* raises, the parameters of both operand distributions (Dirac support,    *)
(* Normal mean and cov) are the same as before the call.                   *)
(***************************************************************************)
\* the i-th call left the distribution of its operand x as it was
OperandKept(i, x) ==
    x.k # "raw" =>
        PostHeap(i)[ObjectOf(calls[i], x)] = calls[i].pre[ObjectOf(calls[i], x)]

Claim_C27 ==
    \A i \in 1..Len(calls) :
        (/\ calls[i].kind \in {"dist", "rv"} /\ calls[i].op \in BinaryOps
         /\ calls[i].err # "none")
        => OperandKept(i, calls[i].a) /\ OperandKept(i, calls[i].b)

(***************************************************************************)
(* C26.  If R = X + d or R = X * d for a generic Distribution X and a      *)
(* Dirac d with scalar support s (nonzero for a product), then R.mean() is *)
(* X.mean() + s (resp. X.mean() times s) after any later operations that   *)
(* change d: the constant is the support d had when R was built.           *)
(***************************************************************************)
\* calls[i] is X op d for a generic X with a mean and a Dirac object d of
\* scalar support, and returned
IsLazyResult(i, op) ==
    LET c == calls[i]
    IN  /\ c.kind = "dist" /\ c.op = op /\ c.err = "none"
        /\ IsGenericObj(c, c.a) /\ c.pre[c.a.id].mfn = "fn"
        /\ IsDiracObj(c, c.b) /\ isscalar(c.pre[c.b.id].support)

\* the mean R = calls[i].ref reports now is P of X's mean and the support d
\* had before calls[i]
MeanIs(i, P(_, _, _)) ==
    /\ mean(heap, calls[i].ref).err = "none"
    /\ P(mean(heap, calls[i].ref).v, calls[i].pre[calls[i].a.id].mean,
         calls[i].pre[calls[i].b.id].support)

Thm_C26 ==
    \A i \in 1..Len(calls) :
        /\ IsLazyResult(i, "add") => MeanIs(i, IsSum)
        /\ (IsLazyResult(i, "mul") /\ calls[i].pre[calls[i].b.id].support.n # 0)
             => MeanIs(i, IsProduct)

\* R = X + d was built with d = Dirac(2), then d += 2 made d Dirac(4); R's
\* mean is still 1 + 2
Wit_C26 ==
    /\ Len(calls) = 2
    /\ IsLazyResult(1, "add")
    /\ calls[1].pre[2].support = PyInt(2)
    /\ calls[2].kind = "idist" /\ calls[2].a = ObjArg(2) /\ calls[2].err = "none"
    /\ heap[2].support = PyInt(4)
    /\ mean(heap, calls[1].ref) = Ok(PyInt(3))

(***************************************************************************)
(* C24.  For a generic Distribution X with a vector mean and a matrix var  *)
(* and a Dirac with matrix support d, X @ Dirac(d) and Dirac(d) @ X return *)
(* a new generic Distribution without raising at the call.                 *)
(***************************************************************************)
Claim_C24 ==
    \A i \in 1..Len(calls) :
        LET c == calls[i]
            x == IF IsGenericObj(c, c.a) THEN c.a ELSE c.b
            d == IF IsGenericObj(c, c.a) THEN c.b ELSE c.a
        IN  (/\ c.kind = "dist" /\ c.op = "matmul"
             /\ IsGenericObj(c, x) /\ c.pre[x.id].mfn = "fn" /\ c.pre[x.id].vfn = "fn"
             /\ Len(c.pre[x.id].mean.sh) = 1 /\ Len(c.pre[x.id].var.sh) = 2
             /\ IsDiracObj(c, d) /\ Len(c.pre[d.id].support.sh) = 2)
            => /\ c.err = "none"
               /\ c.ref > Len(c.pre)
               /\ PostHeap(i)[c.ref].cls = "Distribution"

(***************************************************************************)
(* C23.  The distribution an arithmetic operator returns has a generator   *)
(* of its own: its random_state is not the generator object of any         *)
(* operand.                                                                *)
(***************************************************************************)
Claim_C23 ==
    \A i \in 1..Len(calls) :
        LET c == calls[i]
        IN  (c.kind = "dist" /\ c.err = "none" /\ c.ref > Len(c.pre)) =>
                /\ c.a.k = "obj" => PostHeap(i)[c.ref].rs # c.pre[c.a.id].rs
                /\ c.b.k = "obj" => PostHeap(i)[c.ref].rs # c.pre[c.b.id].rs

====
